---- MODULE Spec2Model ----
(***************************************************************************)
(* Order workflow of go-clean-arch: orderUseCase.Create / Update /         *)
(* UpdateStatus and orderRepository.Create / AddOrderItem / Update /       *)
(* UpdateStatus over the PostgreSQL tables of CreateTables.                *)
(*                                                                         *)
(* Storage is PostgreSQL at its default isolation level (BeginTx is called *)
(* with nil options): a statement reads the latest committed rows plus the *)
(* writes of its own transaction, an UPDATE takes the row lock until the   *)
(* transaction ends, and a second writer of the same row waits for it.     *)
(*                                                                         *)
(* Money is counted in half cents, so that a float64 amount that is not a  *)
(* whole number of cents can be written down; a DECIMAL(10,2) column holds *)
(* whole cents only (an even number of half cents).                        *)
(***************************************************************************)
EXTENDS Integers, Sequences, FiniteSets, TLC

VARIABLES
    users,          \* table users: id -> row (committed)
    products,       \* table products: id -> [price, stock] (committed)
    orders,         \* table orders (committed rows)
    order_items,    \* table order_items (committed rows)
    shipping_info,  \* table shipping_info (committed rows)
    orderSeq,       \* sequence behind orders.id (SERIAL)
    itemSeq,        \* sequence behind order_items.id (SERIAL)
    userSeq,        \* sequence behind users.id (SERIAL)
    productLock,    \* row lock of each products row: 0 or the holding request
    orderLock,      \* row lock of each orders row: 0 or the holding request
    tx,             \* per request: its open transaction and pending writes
    pc,             \* per request: position in the handler
    cl,             \* per request: arguments, locals and result of the call
    ncalls,         \* number of calls started so far
    ncreates,       \* number of create-order calls started so far
    failed          \* history: ids of the calls that returned an error

dbVars   == <<users, products, orders, order_items, shipping_info>>
seqVars  == <<orderSeq, itemSeq, userSeq>>
lockVars == <<productLock, orderLock>>
vars     == <<users, products, orders, order_items, shipping_info, orderSeq,
              itemSeq, userSeq, productLock, orderLock, tx, pc, cl, ncalls, ncreates,
              failed>>
callVars == <<ncalls, ncreates>>

----------------------------------------------------------------------------
(* Bounds *)

NumRequests == 2      \* request slots that can run concurrently
MaxCalls    == 3      \* calls started in one behaviour
MaxCreates  == 2      \* create-order calls started in one behaviour
MaxItems    == 2      \* line items in one create request
MaxStock    == 2      \* largest initial stock of a product
MaxQty      == 2      \* largest requested quantity

Requests    == 1..NumRequests
ProductIDs  == {1, 2}             \* ids of existing products
UnknownProductID == Cardinality(ProductIDs) + 1   \* an id with no products row
UserIDs     == {1}                \* ids of existing users
UnknownUserID == Cardinality(UserIDs) + 1         \* an id with no users row
OrderIDs    == 1..MaxCalls        \* ids the orders sequence can hand out

----------------------------------------------------------------------------
(* Domain constants *)

OrderStatusPending    == "pending"
OrderStatusProcessing == "processing"
OrderStatusCompleted  == "completed"
OrderStatusCancelled  == "cancelled"
OrderStatuses == {OrderStatusPending, OrderStatusProcessing,
                  OrderStatusCompleted, OrderStatusCancelled}

PaymentMethodCreditCard == "credit_card"
PaymentMethodPayPal     == "paypal"

\* Error kinds of pkg/errors (the Err field of AppError) and success.
OK           == "ok"
InvalidInput == "InvalidInput"     \* ErrInvalidInput
NotFound     == "NotFound"         \* ErrNotFound
Internal     == "Internal"         \* a wrapped storage error
NoResult     == "none"

\* Errors of package domain, which the user repository and the user use
\* case return: the types NotFoundError and ConflictError and the values
\* ErrInternalServer and ErrUnauthorized.
DomainNotFoundError     == "domain.NotFoundError"
DomainConflictError     == "domain.ConflictError"
DomainErrInternalServer == "domain.ErrInternalServer"
DomainErrUnauthorized   == "domain.ErrUnauthorized"

\* Kind of the error NewBadRequestError builds.
NewBadRequestError == InvalidInput

\* Kind of the error NewNotFoundError builds.
NewNotFoundError == NotFound

\* Kind of the error NewInternalError builds.
NewInternalError == Internal

\* Conflict kind of pkg/errors and the error NewConflictError builds.
Conflict == "Conflict"
NewConflictError == Conflict

\* The sentinel values of pkg/errors that GetStatusCode compares with; the
\* values of the same name in package domain are other values.
ErrNotFound     == "errors.ErrNotFound"
ErrInvalidInput == "errors.ErrInvalidInput"
ErrUnauthorized == "errors.ErrUnauthorized"
ErrForbidden    == "errors.ErrForbidden"
ErrConflict     == "errors.ErrConflict"
DomainErrNotFound == "domain.ErrNotFound"
DomainErrConflict == "domain.ErrConflict"

StatusBadRequest          == 400
StatusUnauthorized        == 401
StatusForbidden           == 403
StatusNotFound            == 404
StatusConflict            == 409
StatusInternalServerError == 500

\* errors.As(err, &appErr): the errors the constructors of pkg/errors build.
IsAppError(err) == err \in {NewBadRequestError, NewNotFoundError,
                            NewConflictError, NewInternalError}

\* The StatusCode field the constructor gave the AppError.
AppErrorStatusCode(err) ==
    CASE err = NewNotFoundError   -> StatusNotFound
      [] err = NewConflictError   -> StatusConflict
      [] err = NewBadRequestError -> StatusBadRequest
      [] OTHER                    -> StatusInternalServerError

\* errors.Is(err, target) for an error that is no AppError: err is the
\* target, or the Is method of its type says so.  NotFoundError.Is and
\* ConflictError.Is compare the target with the values of package domain.
ErrorsIs(err, target) ==
    \/ err = target
    \/ err = DomainNotFoundError /\ target = DomainErrNotFound
    \/ err = DomainConflictError /\ target = DomainErrConflict

\* GetStatusCode of pkg/errors; no error of the model is a
\* *errors.ValidationError.
GetStatusCode(err) ==
    IF IsAppError(err) THEN AppErrorStatusCode(err)
    ELSE CASE ErrorsIs(err, ErrNotFound)     -> StatusNotFound
           [] ErrorsIs(err, ErrInvalidInput) -> StatusBadRequest
           [] ErrorsIs(err, ErrUnauthorized) -> StatusUnauthorized
           [] ErrorsIs(err, ErrForbidden)    -> StatusForbidden
           [] ErrorsIs(err, ErrConflict)     -> StatusConflict
           [] OTHER                          -> StatusInternalServerError

----------------------------------------------------------------------------
(* Money *)

\* One cent in half cents.
Cent == 2

\* Assignment of a numeric value to a DECIMAL(10,2) column: PostgreSQL
\* rounds to two decimals, ties away from zero.
RoundDecimal2(x) ==
    IF x >= 0 THEN ((x + 1) \div Cent) * Cent
              ELSE -((((-x) + 1) \div Cent) * Cent)

----------------------------------------------------------------------------
(* Helpers over tables *)

RECURSIVE SumSet(_, _)
\* Sum of f[r] over the rows r of the finite set S.
SumSet(S, f) ==
    IF S = {} THEN 0
    ELSE LET r == CHOOSE x \in S : TRUE
         IN  f[r] + SumSet(S \ {r}, f)

ItemsOf(rows, oid) == {r \in rows : r.order_id = oid}
OrderRows(rows, oid) == {o \in rows : o.id = oid}
ShippingOf(rows, oid) == {s \in rows : s.order_id = oid}

\* Sum over item rows of price * quantity.
ItemsAmount(rows) ==
    SumSet(rows, [r \in rows |-> r.price * r.quantity])

\* Sum over item rows of the quantity of product pid.
QuantityOf(rows, pid) ==
    LET S == {r \in rows : r.product_id = pid}
    IN  SumSet(S, [r \in S |-> r.quantity])

\* Sum over the entries of a sequence of line items for product pid.
RECURSIVE SeqQuantity(_, _)
SeqQuantity(items, pid) ==
    IF items = <<>> THEN 0
    ELSE (IF Head(items).product_id = pid THEN Head(items).quantity ELSE 0)
         + SeqQuantity(Tail(items), pid)

\* Sum over a sequence of line items of (price of the product in table
\* prods) * quantity.
RECURSIVE SeqAmount(_, _)
SeqAmount(items, prods) ==
    IF items = <<>> THEN 0
    ELSE prods[Head(items).product_id].price * Head(items).quantity
         + SeqAmount(Tail(items), prods)

Snapshot == [users |-> users, products |-> products, orders |-> orders,
             order_items |-> order_items, shipping_info |-> shipping_info]

----------------------------------------------------------------------------
(* Transactions *)

\* orders, items, shipping: rows inserted and not yet committed; dstock: the
\* pending change of each product's stock; order_id, dtotal: the order whose
\* total_amount the transaction has updated, and by how much.
\* delShipping, delItems, delOrders: committed rows the transaction has
\* deleted.
NoTx == [open |-> FALSE, orders |-> {}, items |-> {}, shipping |-> {},
         dstock |-> [p \in ProductIDs |-> 0], order_id |-> 0, dtotal |-> 0,
         delShipping |-> {}, delItems |-> {}, delOrders |-> {}]

ReleaseLocks(r, locks) == [k \in DOMAIN locks |-> IF locks[k] = r THEN 0 ELSE locks[k]]

\* The end of a transaction: its row locks are released.
EndTx(r) ==
    /\ tx' = [tx EXCEPT ![r] = NoTx]
    /\ productLock' = ReleaseLocks(r, productLock)
    /\ orderLock' = ReleaseLocks(r, orderLock)

\* The committed tables after the transaction of request r commits.
CommitProducts(r) ==
    [p \in DOMAIN products |->
        [products[p] EXCEPT !.stock = @ + tx[r].dstock[p]]]

CommitOrders(r) ==
    {IF tx[r].order_id = o.id
        THEN [o EXCEPT !.total_amount = RoundDecimal2(@ + tx[r].dtotal)]
        ELSE o : o \in orders} \cup tx[r].orders

\* Ids of the orders the transaction of request r has deleted.
DeletedOrderIDs(r) == {o.id : o \in tx[r].delOrders}

\* An open transaction other than that of request r has deleted the orders
\* row oid: the row is locked, and a statement of r that inserts a row
\* referencing it, or writes it, waits for that transaction to end.
OrderDeletePending(r, oid) ==
    \E q \in Requests \ {r} : oid \in DeletedOrderIDs(q)

\* An open transaction other than that of request r has deleted the
\* shipping row of order oid: the row is locked.
ShippingDeletePending(r, oid) ==
    \E q \in Requests \ {r} : ShippingOf(tx[q].delShipping, oid) # {}

\* An open transaction other than that of request r has inserted an item
\* or shipping row that references the committed orders row oid: it holds
\* the key-share lock of that row, and a DELETE of the row waits for it.
OrderKeyShared(r, oid) ==
    \E q \in Requests \ {r} :
        \E row \in tx[q].items \cup tx[q].shipping :
            row.order_id = oid /\ OrderRows(orders, oid) # {}

OrderReferenceNeverViolated(rows, oid) == FALSE

\* order_id INT NOT NULL REFERENCES orders(id): an INSERT of an item or
\* shipping row for an id with no orders row fails.
OrderReferenceViolation(rows, oid) == OrderRows(rows, oid) = {}

\* Rows of a table that references orders(id) ON DELETE CASCADE after the
\* transaction of request r commits: the rows it deleted are gone and so
\* are the rows of the orders it deleted.
CommitChildren(r, rows, inserted, deleted) ==
    {row \in (rows \ deleted) \cup inserted :
        row.order_id \notin DeletedOrderIDs(r)}

\* tx.Commit(): the pending writes become visible together.
Commit(r) ==
    /\ products' = CommitProducts(r)
    /\ orders' = {o \in CommitOrders(r) : o.id \notin DeletedOrderIDs(r)}
    /\ order_items' =
          CommitChildren(r, order_items, tx[r].items, tx[r].delItems)
    /\ shipping_info' =
          CommitChildren(r, shipping_info, tx[r].shipping, tx[r].delShipping)
    /\ EndTx(r)
    /\ UNCHANGED users

RollbackCommits(r) == Commit(r)

\* tx.Rollback(): the pending writes are dropped.
Rollback(r) ==
    /\ EndTx(r)
    /\ UNCHANGED dbVars

\* The zero domain.User; also stands for the nil user.
NoUser == [id |-> 0, username |-> "", email |-> "", created_at |-> 0,
           updated_at |-> 0]

NoCall == [op |-> "none", id |-> 0, user_id |-> 0, items |-> <<>>,
           address |-> "", payment_method |-> "", status |-> "",
           order_id |-> 0, product_id |-> 0, quantity |-> 0, price |-> 0,
           i |-> 0, orderItems |-> <<>>, totalAmount |-> 0, stock |-> 0,
           order |-> [status |-> "", payment_method |-> "", address |-> ""],
           product |-> [price |-> 0, stock |-> 0], suppliesStock |-> FALSE,
           user |-> NoUser, found |-> {},
           exists |-> FALSE, result |-> NoResult, fault |-> FALSE,
           pre |-> [users |-> << >>, products |-> << >>, orders |-> {},
                    order_items |-> {}, shipping_info |-> {}]]

\* A call returns: its result is recorded in the history.
Return(r, c, res, fault) ==
    /\ pc' = [pc EXCEPT ![r] = "done"]
    /\ cl' = [cl EXCEPT ![r] = [c EXCEPT !.result = res, !.fault = fault]]
    /\ failed' = IF res = OK THEN failed ELSE failed \cup {c.id}

\* The caller has taken the result; the request slot is free again.
Ack(r) ==
    /\ pc[r] = "done"
    /\ pc' = [pc EXCEPT ![r] = "idle"]
    /\ cl' = [cl EXCEPT ![r] = NoCall]
    /\ UNCHANGED <<dbVars, seqVars, lockVars, tx, callVars, failed>>

\* A transaction left open by a handler that returned is rolled back by
\* database/sql once the context the transaction was begun with is done.
ContextDone(r) ==
    /\ pc[r] \in {"done", "idle"}
    /\ tx[r].open
    /\ Rollback(r)
    /\ UNCHANGED <<seqVars, pc, cl, callVars, failed>>

----------------------------------------------------------------------------
(* orderUseCase.Create *)

LineItems(pids, qtys, prices) ==
    [product_id : pids, quantity : qtys, price : prices]

SeqsUpTo(S, n) == UNION {[1..k -> S] : k \in 0..n}

\* A create-order request arrives.
Create_Start(r, uids, pids, qtys, prices, addresses) ==
    /\ pc[r] = "idle"
    /\ ~tx[r].open
    /\ ncalls < MaxCalls
    /\ ncreates < MaxCreates
    /\ \E uid \in uids, items \in SeqsUpTo(LineItems(pids, qtys, prices), MaxItems),
          addr \in addresses :
          cl' = [cl EXCEPT ![r] = [NoCall EXCEPT !.op = "Create",
                    !.id = ncalls + 1, !.user_id = uid, !.items = items,
                    !.address = addr,
                    !.payment_method = PaymentMethodCreditCard,
                    !.pre = Snapshot]]
    /\ ncalls' = ncalls + 1
    /\ ncreates' = ncreates + 1
    /\ pc' = [pc EXCEPT ![r] = "Create_GetUser"]
    /\ UNCHANGED <<dbVars, seqVars, lockVars, tx, failed>>

UserFoundAlways(uid) == TRUE

\* userRepo.GetByID returned no error.
UserFound(uid) == uid \in DOMAIN users

\* userRepo.GetByID and the check of len(createDTO.Items).
Create_GetUser(r) ==
    /\ pc[r] = "Create_GetUser"
    /\ LET c == cl[r] IN
       \/ \* the lookup fails with a storage error
          Return(r, c, NewBadRequestError, TRUE)
       \/ /\ ~UserFound(c.user_id)
          /\ Return(r, c, NewBadRequestError, FALSE)
       \/ /\ UserFound(c.user_id)
          /\ IF Len(c.items) = 0
                THEN Return(r, c, NewBadRequestError, FALSE)
             ELSE /\ pc' = [pc EXCEPT ![r] = "Create_FindProduct"]
                  /\ cl' = [cl EXCEPT ![r].i = 1]
                  /\ failed' = failed
    /\ UNCHANGED <<dbVars, seqVars, lockVars, tx, callVars>>

OrderItemPriceFromRequest(product, itemDTO) == itemDTO.price

\* Price recorded for a line item: the product's current price.
OrderItemPrice(product, itemDTO) == product.price

LineAmountIgnoringQuantity(price, quantity) == price

\* Contribution of a line item to totalAmount.
LineAmount(price, quantity) == price * quantity

InsufficientStockErrorInternal == NewInternalError

\* Error returned when product.Stock < itemDTO.Quantity.
InsufficientStockError == NewBadRequestError

\* One iteration of the loop over createDTO.Items: productRepo.FindByID,
\* the stock check and the append to orderItems.
Create_FindProduct(r) ==
    /\ pc[r] = "Create_FindProduct"
    /\ LET c == cl[r]
           itemDTO == c.items[c.i]
       IN
       \/ \* the lookup fails with a storage error
          Return(r, c, NewBadRequestError, TRUE)
       \/ /\ itemDTO.product_id \notin DOMAIN products
          /\ Return(r, c, NewBadRequestError, FALSE)
       \/ /\ itemDTO.product_id \in DOMAIN products
          /\ LET product == products[itemDTO.product_id]
                 orderItem == [product_id |-> itemDTO.product_id,
                               quantity |-> itemDTO.quantity,
                               price |-> OrderItemPrice(product, itemDTO)]
             IN
             IF product.stock < itemDTO.quantity
                THEN Return(r, c, InsufficientStockError, FALSE)
             ELSE /\ cl' = [cl EXCEPT ![r].orderItems = Append(@, orderItem),
                                      ![r].totalAmount =
                                          @ + LineAmount(product.price, itemDTO.quantity),
                                      ![r].i = @ + 1]
                  /\ pc' = [pc EXCEPT ![r] =
                              IF c.i = Len(c.items) THEN "RepoCreate_InsertOrder"
                                                    ELSE "Create_FindProduct"]
                  /\ failed' = failed
    /\ UNCHANGED <<dbVars, seqVars, lockVars, tx, callVars>>

----------------------------------------------------------------------------
(* orderRepository.Create *)

\* BeginTx and INSERT INTO orders ... RETURNING id.  The fields call, n and
\* address of the pending row are history: the call that inserted it, the
\* number of line items and the address it was asked to store.
RepoCreate_InsertOrder(r) ==
    /\ pc[r] = "RepoCreate_InsertOrder"
    /\ LET c == cl[r] IN
       \/ /\ Return(r, c, NewInternalError, TRUE)
          /\ UNCHANGED <<tx, orderSeq>>
       \/ /\ orderSeq' = orderSeq + 1
          /\ tx' = [tx EXCEPT ![r] = [NoTx EXCEPT !.open = TRUE,
                      !.orders = {[id |-> orderSeq + 1,
                                   user_id |-> c.user_id,
                                   status |-> OrderStatusPending,
                                   total_amount |-> RoundDecimal2(c.totalAmount),
                                   payment_method |-> c.payment_method,
                                   call |-> c.id, n |-> Len(c.orderItems),
                                   address |-> c.address]}]]
          /\ cl' = [cl EXCEPT ![r].order_id = orderSeq + 1, ![r].i = 1]
          /\ pc' = [pc EXCEPT ![r] = "RepoCreate_InsertItem"]
          /\ failed' = failed
    /\ UNCHANGED <<dbVars, itemSeq, userSeq, lockVars, callVars>>

StockNeverInsufficient(newStock) == FALSE

\* The check that follows UPDATE products ... RETURNING stock.
StockInsufficient(newStock) == newStock < 0

\* One iteration of the loop over order.Items: INSERT INTO order_items and
\* UPDATE products SET stock = stock - $1 ... RETURNING stock.  The UPDATE
\* waits while another transaction holds the row lock.
RepoCreate_InsertItem(r) ==
    /\ pc[r] = "RepoCreate_InsertItem"
    /\ LET c == cl[r]
           item == c.orderItems[c.i]
           pid == item.product_id
       IN
       \/ \* a storage error (a deadlock abort is one): err is not nil and
          \* the deferred function rolls back
          /\ Rollback(r)
          /\ Return(r, c, NewInternalError, TRUE)
          /\ UNCHANGED itemSeq
       \/ /\ productLock[pid] \in {0, r}
          /\ LET newStock == products[pid].stock + tx[r].dstock[pid] - item.quantity
                 row == [id |-> itemSeq + 1, order_id |-> c.order_id,
                         product_id |-> pid, quantity |-> item.quantity,
                         price |-> RoundDecimal2(item.price), call |-> c.id]
             IN
             /\ itemSeq' = itemSeq + 1
             /\ tx' = [tx EXCEPT ![r].items = @ \cup {row},
                                 ![r].dstock[pid] = @ - item.quantity]
             /\ productLock' = [productLock EXCEPT ![pid] = r]
             /\ orderLock' = orderLock
             /\ IF StockInsufficient(newStock)
                   \* return NewBadRequestError(...): err is nil here, so the
                   \* deferred function does not roll back
                   THEN Return(r, c, NewBadRequestError, FALSE)
                ELSE /\ cl' = [cl EXCEPT ![r].i = @ + 1]
                     /\ pc' = [pc EXCEPT ![r] =
                                 IF c.i < Len(c.orderItems) THEN "RepoCreate_InsertItem"
                                 ELSE IF c.address # "" THEN "RepoCreate_InsertShipping"
                                 ELSE "RepoCreate_Commit"]
                     /\ failed' = failed
          /\ UNCHANGED dbVars
    /\ UNCHANGED <<orderSeq, userSeq, callVars>>

\* INSERT INTO shipping_info, executed when the address is not empty.
RepoCreate_InsertShipping(r) ==
    /\ pc[r] = "RepoCreate_InsertShipping"
    /\ LET c == cl[r] IN
       \/ /\ Rollback(r)
          /\ Return(r, c, NewInternalError, TRUE)
       \/ /\ tx' = [tx EXCEPT ![r].shipping =
                        {[order_id |-> c.order_id, address |-> c.address,
                          call |-> c.id]}]
          /\ pc' = [pc EXCEPT ![r] = "RepoCreate_Commit"]
          /\ UNCHANGED <<dbVars, lockVars, cl, failed>>
    /\ UNCHANGED <<seqVars, callVars>>

\* tx.Commit().
RepoCreate_Commit(r) ==
    /\ pc[r] = "RepoCreate_Commit"
    /\ LET c == cl[r] IN
       \/ /\ Rollback(r)
          /\ Return(r, c, NewInternalError, TRUE)
       \/ /\ Commit(r)
          /\ Return(r, c, OK, FALSE)
    /\ UNCHANGED <<seqVars, callVars>>

----------------------------------------------------------------------------
(* orderRepository.AddOrderItem *)

AddOrderItem_Start(r, oids, pids, qtys, prices) ==
    /\ pc[r] = "idle"
    /\ ~tx[r].open
    /\ ncalls < MaxCalls
    /\ \E oid \in oids, pid \in pids, qty \in qtys, price \in prices :
          cl' = [cl EXCEPT ![r] = [NoCall EXCEPT !.op = "AddOrderItem",
                    !.id = ncalls + 1, !.order_id = oid, !.product_id = pid,
                    !.quantity = qty, !.price = price, !.pre = Snapshot]]
    /\ ncalls' = ncalls + 1
    /\ pc' = [pc EXCEPT ![r] = "AddOrderItem_CheckOrder"]
    /\ UNCHANGED <<dbVars, seqVars, lockVars, tx, ncreates, failed>>

\* BeginTx and SELECT EXISTS(SELECT 1 FROM orders WHERE id = $1).
AddOrderItem_CheckOrder(r) ==
    /\ pc[r] = "AddOrderItem_CheckOrder"
    /\ LET c == cl[r] IN
       \/ /\ Return(r, c, NewInternalError, TRUE)
          /\ tx' = tx
       \/ /\ tx' = [tx EXCEPT ![r] = [NoTx EXCEPT !.open = TRUE]]
          /\ IF OrderRows(orders, c.order_id) = {}
                \* return NewNotFoundError(...): err is nil, no rollback
                THEN Return(r, c, NewNotFoundError, FALSE)
             ELSE /\ pc' = [pc EXCEPT ![r] = "AddOrderItem_CheckStock"]
                  /\ UNCHANGED <<cl, failed>>
    /\ UNCHANGED <<dbVars, seqVars, lockVars, callVars>>

AddOrderItemStockNeverInsufficient(stock, quantity) == FALSE

\* The check between the stock SELECT and the writes.
AddOrderItemStockInsufficient(stock, quantity) == stock < quantity

\* SELECT stock FROM products WHERE id = $1 and the check of the stock read.
AddOrderItem_CheckStock(r) ==
    /\ pc[r] = "AddOrderItem_CheckStock"
    /\ LET c == cl[r] IN
       \/ /\ Rollback(r)
          /\ Return(r, c, NewInternalError, TRUE)
       \/ /\ c.product_id \notin DOMAIN products
          \* err == sql.ErrNoRows: err is not nil, the deferred function
          \* rolls back
          /\ Rollback(r)
          /\ Return(r, c, NewNotFoundError, FALSE)
       \/ /\ c.product_id \in DOMAIN products
          /\ LET stock == products[c.product_id].stock IN
             IF AddOrderItemStockInsufficient(stock, c.quantity)
                \* return NewBadRequestError(...): err is nil, no rollback
                THEN Return(r, c, NewBadRequestError, FALSE)
             ELSE /\ cl' = [cl EXCEPT ![r].stock = stock]
                  /\ pc' = [pc EXCEPT ![r] = "AddOrderItem_InsertItem"]
                  /\ failed' = failed
          /\ UNCHANGED <<dbVars, tx, lockVars>>
    /\ UNCHANGED <<seqVars, callVars>>

\* INSERT INTO order_items ... RETURNING id.  The statement waits while a
\* transaction that has deleted the order is open, and fails, after the
\* sequence has handed out the id, when the order row is gone: err is not
\* nil and the deferred function rolls back.
AddOrderItem_InsertItem(r) ==
    /\ pc[r] = "AddOrderItem_InsertItem"
    /\ LET c == cl[r] IN
       \/ /\ Rollback(r)
          /\ Return(r, c, NewInternalError, TRUE)
          /\ UNCHANGED itemSeq
       \/ /\ ~OrderDeletePending(r, c.order_id)
          /\ itemSeq' = itemSeq + 1
          /\ IF OrderReferenceViolation(orders, c.order_id)
                THEN /\ Rollback(r)
                     /\ Return(r, c, NewInternalError, FALSE)
             ELSE /\ tx' = [tx EXCEPT ![r].items = @ \cup
                          {[id |-> itemSeq + 1, order_id |-> c.order_id,
                            product_id |-> c.product_id,
                            quantity |-> c.quantity,
                            price |-> RoundDecimal2(c.price), call |-> c.id]}]
                  /\ pc' = [pc EXCEPT ![r] = "AddOrderItem_UpdateStock"]
                  /\ UNCHANGED <<dbVars, lockVars, cl, failed>>
    /\ UNCHANGED <<orderSeq, userSeq, callVars>>

\* UPDATE products SET stock = stock - $1 WHERE id = $3; waits for the row
\* lock.  The new stock is not read back.
AddOrderItem_UpdateStock(r) ==
    /\ pc[r] = "AddOrderItem_UpdateStock"
    /\ LET c == cl[r] IN
       \/ /\ Rollback(r)
          /\ Return(r, c, NewInternalError, TRUE)
       \/ /\ productLock[c.product_id] \in {0, r}
          /\ tx' = [tx EXCEPT ![r].dstock[c.product_id] = @ - c.quantity]
          /\ productLock' = [productLock EXCEPT ![c.product_id] = r]
          /\ pc' = [pc EXCEPT ![r] = "AddOrderItem_UpdateTotal"]
          /\ UNCHANGED <<dbVars, orderLock, cl, failed>>
    /\ UNCHANGED <<seqVars, callVars>>

\* Amount added to total_amount: item.Price * float64(item.Quantity).
AddOrderItemAmount(price, quantity) == price * quantity

\* UPDATE orders SET total_amount = total_amount + $1 WHERE id = $3; waits
\* for the row lock.
AddOrderItem_UpdateTotal(r) ==
    /\ pc[r] = "AddOrderItem_UpdateTotal"
    /\ LET c == cl[r] IN
       \/ /\ Rollback(r)
          /\ Return(r, c, NewInternalError, TRUE)
       \/ /\ orderLock[c.order_id] \in {0, r}
          /\ tx' = [tx EXCEPT ![r].order_id = c.order_id,
                              ![r].dtotal = AddOrderItemAmount(c.price, c.quantity)]
          /\ orderLock' = [orderLock EXCEPT ![c.order_id] = r]
          /\ pc' = [pc EXCEPT ![r] = "AddOrderItem_Commit"]
          /\ UNCHANGED <<dbVars, productLock, cl, failed>>
    /\ UNCHANGED <<seqVars, callVars>>

\* tx.Commit().
AddOrderItem_Commit(r) ==
    /\ pc[r] = "AddOrderItem_Commit"
    /\ LET c == cl[r] IN
       \/ /\ Rollback(r)
          /\ Return(r, c, NewInternalError, TRUE)
       \/ /\ Commit(r)
          /\ Return(r, c, OK, FALSE)
    /\ UNCHANGED <<seqVars, callVars>>

----------------------------------------------------------------------------
(* orderUseCase.Update and orderRepository.Update *)

Update_Start(r, oids, statuses, methods, addresses) ==
    /\ pc[r] = "idle"
    /\ ~tx[r].open
    /\ ncalls < MaxCalls
    /\ \E oid \in oids, st \in statuses, pm \in methods, addr \in addresses :
          cl' = [cl EXCEPT ![r] = [NoCall EXCEPT !.op = "Update",
                    !.id = ncalls + 1, !.order_id = oid, !.status = st,
                    !.payment_method = pm, !.address = addr, !.pre = Snapshot]]
    /\ ncalls' = ncalls + 1
    /\ pc' = [pc EXCEPT ![r] = "Update_FindByID"]
    /\ UNCHANGED <<dbVars, seqVars, lockVars, tx, ncreates, failed>>

PatchKeepsRead(read, supplied) == read

\* The value a field of the order takes in orderUseCase.Update: the value
\* of the request when it is not empty, the value read otherwise.
Patch(read, supplied) == IF supplied # "" THEN supplied ELSE read

FindByIDNoRowsErrorInternal == NewInternalError

\* Error orderRepository.FindByID returns for sql.ErrNoRows.
FindByIDNoRowsError == NewNotFoundError

\* orderRepo.FindByID and the overlay of the fields of updateDTO.
Update_FindByID(r) ==
    /\ pc[r] = "Update_FindByID"
    /\ LET c == cl[r]
           rows == OrderRows(orders, c.order_id)
           ship == ShippingOf(shipping_info, c.order_id)
       IN
       \/ Return(r, c, NewInternalError, TRUE)
       \/ /\ rows = {}
          /\ Return(r, c, FindByIDNoRowsError, FALSE)
       \/ /\ rows # {}
          /\ LET o == CHOOSE x \in rows : TRUE
                 addr == IF ship = {} THEN ""
                         ELSE (CHOOSE s \in ship : TRUE).address
             IN cl' = [cl EXCEPT ![r].order =
                         [status |-> Patch(o.status, c.status),
                          payment_method |-> Patch(o.payment_method, c.payment_method),
                          address |-> Patch(addr, c.address)]]
          /\ pc' = [pc EXCEPT ![r] = "RepoUpdate_Orders"]
          /\ failed' = failed
    /\ UNCHANGED <<dbVars, seqVars, lockVars, tx, callVars>>

\* UPDATE orders SET status = $1, payment_method = $2 WHERE id = $4, outside
\* any transaction; waits for the row lock.
RepoUpdate_Orders(r) ==
    /\ pc[r] = "RepoUpdate_Orders"
    /\ LET c == cl[r]
           rows == OrderRows(orders, c.order_id)
       IN
       \/ /\ Return(r, c, NewInternalError, TRUE)
          /\ orders' = orders
       \/ /\ rows = {}
          /\ Return(r, c, NewNotFoundError, FALSE)
          /\ orders' = orders
       \/ /\ rows # {}
          /\ orderLock[c.order_id] = 0
          /\ orders' = {IF o.id = c.order_id
                           THEN [o EXCEPT !.status = c.order.status,
                                          !.payment_method = c.order.payment_method]
                           ELSE o : o \in orders}
          /\ pc' = [pc EXCEPT ![r] = IF c.order.address # ""
                                        THEN "RepoUpdate_Shipping"
                                        ELSE "Update_Reread"]
          /\ UNCHANGED <<cl, failed>>
    /\ UNCHANGED <<users, products, order_items, shipping_info, seqVars,
                   lockVars, tx, callVars>>

\* UPDATE shipping_info SET address = $1, ... WHERE order_id = $8.
RepoUpdate_Shipping(r) ==
    /\ pc[r] = "RepoUpdate_Shipping"
    /\ LET c == cl[r] IN
       \/ /\ Return(r, c, NewInternalError, TRUE)
          /\ shipping_info' = shipping_info
       \/ /\ ~ShippingDeletePending(r, c.order_id)
          /\ shipping_info' = {IF s.order_id = c.order_id
                                  THEN [s EXCEPT !.address = c.order.address]
                                  ELSE s : s \in shipping_info}
          /\ pc' = [pc EXCEPT ![r] = "Update_Reread"]
          /\ UNCHANGED <<cl, failed>>
    /\ UNCHANGED <<users, products, orders, order_items, seqVars, lockVars,
                   tx, callVars>>

\* The second orderRepo.FindByID, which produces the returned order.
Update_Reread(r) ==
    /\ pc[r] = "Update_Reread"
    /\ LET c == cl[r] IN
       \/ Return(r, c, NewInternalError, TRUE)
       \/ /\ OrderRows(orders, c.order_id) = {}
          /\ Return(r, c, NewNotFoundError, FALSE)
       \/ /\ OrderRows(orders, c.order_id) # {}
          /\ Return(r, c, OK, FALSE)
    /\ UNCHANGED <<dbVars, seqVars, lockVars, tx, callVars>>

----------------------------------------------------------------------------
(* orderUseCase.UpdateStatus and orderRepository.UpdateStatus *)

UpdateStatus_Start(r, oids, statuses) ==
    /\ pc[r] = "idle"
    /\ ~tx[r].open
    /\ ncalls < MaxCalls
    /\ \E oid \in oids, st \in statuses :
          cl' = [cl EXCEPT ![r] = [NoCall EXCEPT !.op = "UpdateStatus",
                    !.id = ncalls + 1, !.order_id = oid, !.status = st,
                    !.pre = Snapshot]]
    /\ ncalls' = ncalls + 1
    /\ pc' = [pc EXCEPT ![r] = "RepoUpdateStatus"]
    /\ UNCHANGED <<dbVars, seqVars, lockVars, tx, ncreates, failed>>

\* UPDATE orders SET status = $1 WHERE id = $3, outside any transaction.
RepoUpdateStatus(r) ==
    /\ pc[r] = "RepoUpdateStatus"
    /\ LET c == cl[r]
           rows == OrderRows(orders, c.order_id)
       IN
       \/ /\ Return(r, c, NewInternalError, TRUE)
          /\ orders' = orders
       \/ /\ rows = {}
          /\ Return(r, c, NewNotFoundError, FALSE)
          /\ orders' = orders
       \/ /\ rows # {}
          /\ orderLock[c.order_id] = 0
          /\ orders' = {IF o.id = c.order_id THEN [o EXCEPT !.status = c.status]
                                              ELSE o : o \in orders}
          /\ Return(r, c, OK, FALSE)
    /\ UNCHANGED <<users, products, order_items, shipping_info, seqVars,
                   lockVars, tx, callVars>>

----------------------------------------------------------------------------
(* productUseCase.UpdateStock and productRepository.UpdateStock *)

UpdateStock_Start(r, pids, deltas) ==
    /\ pc[r] = "idle"
    /\ ~tx[r].open
    /\ ncalls < MaxCalls
    /\ \E pid \in pids, delta \in deltas :
          cl' = [cl EXCEPT ![r] = [NoCall EXCEPT !.op = "UpdateStock",
                    !.id = ncalls + 1, !.product_id = pid,
                    !.quantity = delta, !.pre = Snapshot]]
    /\ ncalls' = ncalls + 1
    /\ pc' = [pc EXCEPT ![r] = "UpdateStock_Add"]
    /\ UNCHANGED <<dbVars, seqVars, lockVars, tx, ncreates, failed>>

\* The check of the stock that UPDATE ... RETURNING stock returned.
UpdateStockNegative(newStock) == newStock < 0

\* UPDATE products SET stock = stock + $1 ... RETURNING stock, outside any
\* transaction: the new stock is committed by the statement itself.  Waits
\* for the row lock.
UpdateStock_Add(r) ==
    /\ pc[r] = "UpdateStock_Add"
    /\ LET c == cl[r] IN
       \/ /\ Return(r, c, NewInternalError, TRUE)
          /\ products' = products
       \/ /\ c.product_id \notin DOMAIN products
          \* err == sql.ErrNoRows
          /\ Return(r, c, NewNotFoundError, FALSE)
          /\ products' = products
       \/ /\ c.product_id \in DOMAIN products
          /\ productLock[c.product_id] = 0
          /\ LET newStock == products[c.product_id].stock + c.quantity IN
             /\ products' = [products EXCEPT ![c.product_id].stock = newStock]
             /\ IF UpdateStockNegative(newStock)
                   THEN /\ pc' = [pc EXCEPT ![r] = "UpdateStock_Revert"]
                        /\ cl' = [cl EXCEPT ![r].stock = newStock]
                        /\ failed' = failed
                ELSE Return(r, [c EXCEPT !.stock = newStock], OK, FALSE)
    /\ UNCHANGED <<users, orders, order_items, shipping_info, seqVars,
                   lockVars, tx, callVars>>

\* UPDATE products SET stock = stock - $1, a second statement outside any
\* transaction; its error is logged and dropped.  NewBadRequestError is
\* returned in both cases.
UpdateStock_Revert(r) ==
    /\ pc[r] = "UpdateStock_Revert"
    /\ LET c == cl[r] IN
       \/ /\ products' = products
          /\ Return(r, c, NewBadRequestError, TRUE)
       \/ /\ productLock[c.product_id] = 0
          /\ products' = [products EXCEPT ![c.product_id].stock = @ - c.quantity]
          /\ Return(r, c, NewBadRequestError, FALSE)
    /\ UNCHANGED <<users, orders, order_items, shipping_info, seqVars,
                   lockVars, tx, callVars>>

UpdateStockSteps(r) ==
    \/ UpdateStock_Add(r)
    \/ UpdateStock_Revert(r)

----------------------------------------------------------------------------
(* productUseCase.Update and productRepository.Update *)

\* The value json.Decode leaves in the int field Stock of ProductUpdateDTO:
\* the number of the body when the body has a "stock" member, the zero
\* value otherwise.
DecodeStock(supplied, value) == IF supplied THEN value ELSE 0

\* Bodies of PUT /products/{id}: a price (0 when the body has none) and a
\* stock member or none.  The other members of the body are left out: name,
\* description and images have no part in orders, and the SKU and the
\* category are those the product has, which skips both lookups.
ProductUpdate_Start(r, pids, prices, stockMembers) ==
    /\ pc[r] = "idle"
    /\ ~tx[r].open
    /\ ncalls < MaxCalls
    /\ \E pid \in pids, price \in prices, m \in stockMembers :
          cl' = [cl EXCEPT ![r] = [NoCall EXCEPT !.op = "ProductUpdate",
                    !.id = ncalls + 1, !.product_id = pid, !.price = price,
                    !.suppliesStock = m.supplied,
                    !.stock = DecodeStock(m.supplied, m.value),
                    !.pre = Snapshot]]
    /\ ncalls' = ncalls + 1
    /\ pc' = [pc EXCEPT ![r] = "ProductUpdate_FindByID"]
    /\ UNCHANGED <<dbVars, seqVars, lockVars, tx, ncreates, failed>>

\* product.Price after "if updateDTO.Price > 0".
PatchPrice(read, price) == IF price > 0 THEN price ELSE read

\* product.Stock after "if updateDTO.Stock >= 0".
PatchStock(read, stock) == IF stock >= 0 THEN stock ELSE read

\* productRepo.FindByID and the overlay of the fields of updateDTO.
ProductUpdate_FindByID(r) ==
    /\ pc[r] = "ProductUpdate_FindByID"
    /\ LET c == cl[r] IN
       \/ Return(r, c, NewInternalError, TRUE)
       \/ /\ c.product_id \notin DOMAIN products
          /\ Return(r, c, NewNotFoundError, FALSE)
       \/ /\ c.product_id \in DOMAIN products
          /\ LET p == products[c.product_id] IN
             cl' = [cl EXCEPT ![r].product =
                       [price |-> PatchPrice(p.price, c.price),
                        stock |-> PatchStock(p.stock, c.stock)]]
          /\ pc' = [pc EXCEPT ![r] = "RepoProductUpdate"]
          /\ failed' = failed
    /\ UNCHANGED <<dbVars, seqVars, lockVars, tx, callVars>>

ProductUpdateRepricesItems(rows, pid, price) ==
    {IF row.product_id = pid THEN [row EXCEPT !.price = price] ELSE row :
        row \in rows}

\* The item rows after productRepository.Update: its one statement is on
\* table products.
ProductUpdateItemRows(rows, pid, price) == rows

\* UPDATE products SET ..., price = $3, ..., stock = $5, ... WHERE id = $9,
\* outside any transaction; waits for the row lock.
RepoProductUpdate(r) ==
    /\ pc[r] = "RepoProductUpdate"
    /\ LET c == cl[r] IN
       \/ /\ Return(r, c, NewInternalError, TRUE)
          /\ UNCHANGED <<products, order_items>>
       \/ /\ productLock[c.product_id] = 0
          /\ products' = [products EXCEPT ![c.product_id] =
                            [price |-> RoundDecimal2(c.product.price),
                             stock |-> c.product.stock]]
          /\ order_items' = ProductUpdateItemRows(order_items, c.product_id,
                                RoundDecimal2(c.product.price))
          /\ pc' = [pc EXCEPT ![r] = "ProductUpdate_Reread"]
          /\ UNCHANGED <<cl, failed>>
    /\ UNCHANGED <<users, orders, shipping_info, seqVars, lockVars, tx,
                   callVars>>

\* The second productRepo.FindByID; its error is logged and nil is
\* returned as the error.
ProductUpdate_Reread(r) ==
    /\ pc[r] = "ProductUpdate_Reread"
    /\ LET c == cl[r] IN
       \/ Return(r, c, OK, TRUE)
       \/ Return(r, c, OK, FALSE)
    /\ UNCHANGED <<dbVars, seqVars, lockVars, tx, callVars>>

ProductUpdateSteps(r) ==
    \/ ProductUpdate_FindByID(r)
    \/ RepoProductUpdate(r)
    \/ ProductUpdate_Reread(r)

----------------------------------------------------------------------------
(* orderUseCase.Delete and orderRepository.Delete *)

Delete_Start(r, oids) ==
    /\ pc[r] = "idle"
    /\ ~tx[r].open
    /\ ncalls < MaxCalls
    /\ \E oid \in oids :
          cl' = [cl EXCEPT ![r] = [NoCall EXCEPT !.op = "Delete",
                    !.id = ncalls + 1, !.order_id = oid, !.pre = Snapshot]]
    /\ ncalls' = ncalls + 1
    /\ pc' = [pc EXCEPT ![r] = "RepoDelete_Shipping"]
    /\ UNCHANGED <<dbVars, seqVars, lockVars, tx, ncreates, failed>>

\* BeginTx and DELETE FROM shipping_info WHERE order_id = $1.
RepoDelete_Shipping(r) ==
    /\ pc[r] = "RepoDelete_Shipping"
    /\ LET c == cl[r] IN
       \/ /\ Return(r, c, NewInternalError, TRUE)
          /\ tx' = tx
       \/ /\ tx' = [tx EXCEPT ![r] = [NoTx EXCEPT !.open = TRUE,
                      !.delShipping = ShippingOf(shipping_info, c.order_id)]]
          /\ pc' = [pc EXCEPT ![r] = "RepoDelete_Items"]
          /\ UNCHANGED <<cl, failed>>
    /\ UNCHANGED <<dbVars, seqVars, lockVars, callVars>>

DeleteStockRestored(items, pid) == QuantityOf(items, pid)

\* Change of a product's stock made by Delete for the item rows it deletes:
\* Delete has no statement on products.
DeleteStockChange(items, pid) == 0

\* DELETE FROM order_items WHERE order_id = $1.
RepoDelete_Items(r) ==
    /\ pc[r] = "RepoDelete_Items"
    /\ LET c == cl[r]
           items == ItemsOf(order_items, c.order_id)
       IN
       \/ /\ Rollback(r)
          /\ Return(r, c, NewInternalError, TRUE)
       \/ /\ tx' = [tx EXCEPT ![r].delItems = items,
                              ![r].dstock = [p \in ProductIDs |->
                                                DeleteStockChange(items, p)]]
          /\ pc' = [pc EXCEPT ![r] = "RepoDelete_Order"]
          /\ UNCHANGED <<dbVars, lockVars, cl, failed>>
    /\ UNCHANGED <<seqVars, callVars>>

DeleteNoOrderRows(rows, id) == {}

\* The rows DELETE FROM orders WHERE id = $1 affects.
DeleteOrderRows(rows, id) == OrderRows(rows, id)

\* DELETE FROM orders WHERE id = $1 and the check of RowsAffected; waits
\* for the row lock and for the transactions that have inserted rows
\* referencing the order.
RepoDelete_Order(r) ==
    /\ pc[r] = "RepoDelete_Order"
    /\ LET c == cl[r]
           rows == DeleteOrderRows(orders, c.order_id)
       IN
       \/ /\ Rollback(r)
          /\ Return(r, c, NewInternalError, TRUE)
       \/ /\ rows = {}
          \* return NewNotFoundError(...): err is nil, no rollback
          /\ Return(r, c, NewNotFoundError, FALSE)
          /\ UNCHANGED <<dbVars, tx, lockVars>>
       \/ /\ rows # {}
          /\ orderLock[c.order_id] \in {0, r}
          /\ ~OrderKeyShared(r, c.order_id)
          /\ tx' = [tx EXCEPT ![r].delOrders = rows]
          /\ orderLock' = [orderLock EXCEPT ![c.order_id] = r]
          /\ pc' = [pc EXCEPT ![r] = "RepoDelete_Commit"]
          /\ UNCHANGED <<dbVars, productLock, cl, failed>>
    /\ UNCHANGED <<seqVars, callVars>>

\* tx.Commit().
RepoDelete_Commit(r) ==
    /\ pc[r] = "RepoDelete_Commit"
    /\ LET c == cl[r] IN
       \/ /\ Rollback(r)
          /\ Return(r, c, NewInternalError, TRUE)
       \/ /\ Commit(r)
          /\ Return(r, c, OK, FALSE)
    /\ UNCHANGED <<seqVars, callVars>>

DeleteSteps(r) ==
    \/ RepoDelete_Shipping(r)
    \/ RepoDelete_Items(r)
    \/ RepoDelete_Order(r)
    \/ RepoDelete_Commit(r)

----------------------------------------------------------------------------
(* orderUseCase.GetByID and orderUseCase.GetOrderWithDetails *)

GetOps == {"GetByID", "GetOrderWithDetails"}

Get_Start(r, ops, oids) ==
    /\ pc[r] = "idle"
    /\ ~tx[r].open
    /\ ncalls < MaxCalls
    /\ \E op \in ops, oid \in oids :
          cl' = [cl EXCEPT ![r] = [NoCall EXCEPT !.op = op,
                    !.id = ncalls + 1, !.order_id = oid, !.pre = Snapshot]]
    /\ ncalls' = ncalls + 1
    /\ pc' = [pc EXCEPT ![r] = "Get_FindByID"]
    /\ UNCHANGED <<dbVars, seqVars, lockVars, tx, ncreates, failed>>

\* orderRepo.FindByID, called by GetByID and by GetOrderWithDetails.
Get_FindByID(r) ==
    /\ pc[r] = "Get_FindByID"
    /\ LET c == cl[r]
           rows == OrderRows(orders, c.order_id)
       IN
       \/ Return(r, c, NewInternalError, TRUE)
       \/ /\ rows = {}
          /\ Return(r, c, FindByIDNoRowsError, FALSE)
       \/ /\ rows # {}
          /\ IF c.op = "GetByID"
                THEN Return(r, c, OK, FALSE)
             ELSE /\ pc' = [pc EXCEPT ![r] = "Details_GetOrderItems"]
                  /\ UNCHANGED <<cl, failed>>
    /\ UNCHANGED <<dbVars, seqVars, lockVars, tx, callVars>>

\* orderRepo.GetOrderItems in GetOrderWithDetails.
Details_GetOrderItems(r) ==
    /\ pc[r] = "Details_GetOrderItems"
    /\ LET c == cl[r] IN
       \/ Return(r, c, NewInternalError, TRUE)
       \/ /\ pc' = [pc EXCEPT ![r] = "Details_GetShippingInfo"]
          /\ UNCHANGED <<cl, failed>>
    /\ UNCHANGED <<dbVars, seqVars, lockVars, tx, callVars>>

\* orderRepo.GetShippingInfo in GetOrderWithDetails; a missing shipping row
\* is not an error.
Details_GetShippingInfo(r) ==
    /\ pc[r] = "Details_GetShippingInfo"
    /\ LET c == cl[r] IN
       \/ Return(r, c, NewInternalError, TRUE)
       \/ Return(r, c, OK, FALSE)
    /\ UNCHANGED <<dbVars, seqVars, lockVars, tx, callVars>>

GetSteps(r) ==
    \/ Get_FindByID(r)
    \/ Details_GetOrderItems(r)
    \/ Details_GetShippingInfo(r)

----------------------------------------------------------------------------
(* OrderHandler.UpdateStatus *)

\* A PATCH /orders/{id}/status request of an admin arrives.
UpdateStatusRequest_Start(r, oids, statuses) ==
    /\ pc[r] = "idle"
    /\ ~tx[r].open
    /\ ncalls < MaxCalls
    /\ \E oid \in oids, st \in statuses :
          cl' = [cl EXCEPT ![r] = [NoCall EXCEPT !.op = "UpdateStatusRequest",
                    !.id = ncalls + 1, !.order_id = oid, !.status = st,
                    !.pre = Snapshot]]
    /\ ncalls' = ncalls + 1
    /\ pc' = [pc EXCEPT ![r] = "UpdateStatusRequest_Validate"]
    /\ UNCHANGED <<dbVars, seqVars, lockVars, tx, ncreates, failed>>

\* The handler's check of statusUpdate.Status against the four statuses,
\* before orderUseCase.UpdateStatus is called.
UpdateStatusRequest_Validate(r) ==
    /\ pc[r] = "UpdateStatusRequest_Validate"
    /\ IF cl[r].status \notin OrderStatuses
          THEN Return(r, cl[r], NewBadRequestError, FALSE)
       ELSE /\ pc' = [pc EXCEPT ![r] = "RepoUpdateStatus"]
            /\ UNCHANGED <<cl, failed>>
    /\ UNCHANGED <<dbVars, seqVars, lockVars, tx, callVars>>

----------------------------------------------------------------------------
(* orderRepository.SaveShippingInfo *)

SaveShippingInfo_Start(r, oids, addresses) ==
    /\ pc[r] = "idle"
    /\ ~tx[r].open
    /\ ncalls < MaxCalls
    /\ \E oid \in oids, addr \in addresses :
          cl' = [cl EXCEPT ![r] = [NoCall EXCEPT !.op = "SaveShippingInfo",
                    !.id = ncalls + 1, !.order_id = oid, !.address = addr,
                    !.pre = Snapshot]]
    /\ ncalls' = ncalls + 1
    /\ pc' = [pc EXCEPT ![r] = "SaveShippingInfo_CheckExists"]
    /\ UNCHANGED <<dbVars, seqVars, lockVars, tx, ncreates, failed>>

\* SELECT EXISTS(SELECT 1 FROM shipping_info WHERE order_id = $1).
SaveShippingInfo_CheckExists(r) ==
    /\ pc[r] = "SaveShippingInfo_CheckExists"
    /\ LET c == cl[r] IN
       \/ Return(r, c, NewInternalError, TRUE)
       \/ /\ cl' = [cl EXCEPT ![r].exists =
                        ShippingOf(shipping_info, c.order_id) # {}]
          /\ pc' = [pc EXCEPT ![r] = "SaveShippingInfo_Write"]
          /\ failed' = failed
    /\ UNCHANGED <<dbVars, seqVars, lockVars, tx, callVars>>

UniqueNeverViolated(rows, oid) == FALSE

\* UNIQUE(order_id) of shipping_info: an INSERT for an order that has a
\* shipping row fails.
UniqueViolation(rows, oid) == ShippingOf(rows, oid) # {}

\* The UPDATE of the shipping row when one was seen, the INSERT otherwise;
\* both outside any transaction.  The INSERT fails when the order row does
\* not exist (REFERENCES orders(id)) or a shipping row of the order exists.
\* Either statement waits while a transaction that has deleted the row it
\* touches, or the order, is open.
SaveShippingInfo_Write(r) ==
    /\ pc[r] = "SaveShippingInfo_Write"
    /\ LET c == cl[r] IN
       \/ /\ Return(r, c, NewInternalError, TRUE)
          /\ shipping_info' = shipping_info
       \/ /\ c.exists
          /\ ~ShippingDeletePending(r, c.order_id)
          /\ shipping_info' = {IF s.order_id = c.order_id
                                  THEN [s EXCEPT !.address = c.address]
                                  ELSE s : s \in shipping_info}
          /\ Return(r, c, OK, FALSE)
       \/ /\ ~c.exists
          /\ ~OrderDeletePending(r, c.order_id)
          /\ ~ShippingDeletePending(r, c.order_id)
          /\ IF \/ OrderReferenceViolation(orders, c.order_id)
                \/ UniqueViolation(shipping_info, c.order_id)
                THEN /\ Return(r, c, NewInternalError, FALSE)
                     /\ shipping_info' = shipping_info
             ELSE /\ shipping_info' = shipping_info \cup
                        {[order_id |-> c.order_id, address |-> c.address,
                          call |-> c.id]}
                  /\ Return(r, c, OK, FALSE)
    /\ UNCHANGED <<users, products, orders, order_items, seqVars, lockVars,
                   tx, callVars>>

SaveShippingInfoSteps(r) ==
    \/ SaveShippingInfo_CheckExists(r)
    \/ SaveShippingInfo_Write(r)

----------------------------------------------------------------------------
(* userUseCase.GetByID, userUseCase.Create and the userRepository *)

UserGetByID_Start(r, uids) ==
    /\ pc[r] = "idle"
    /\ ~tx[r].open
    /\ ncalls < MaxCalls
    /\ \E uid \in uids :
          cl' = [cl EXCEPT ![r] = [NoCall EXCEPT !.op = "UserGetByID",
                    !.id = ncalls + 1, !.user_id = uid, !.pre = Snapshot]]
    /\ ncalls' = ncalls + 1
    /\ pc' = [pc EXCEPT ![r] = "UserGetByID"]
    /\ UNCHANGED <<dbVars, seqVars, lockVars, tx, ncreates, failed>>

\* The domain.User scanned from a row of table users.
ScanUser(row) == [id |-> row.id, username |-> row.username,
                  email |-> row.email, created_at |-> row.created_at,
                  updated_at |-> row.updated_at]

UserNoRowsErrorInternal == DomainErrInternalServer

\* Error the userRepository returns for sql.ErrNoRows.
UserNoRowsError == DomainNotFoundError

\* userRepository.GetByID: SELECT ... FROM users WHERE id = $1; the use case
\* returns the user or the error as it gets them.
UserGetByID(r) ==
    /\ pc[r] = "UserGetByID"
    /\ LET c == cl[r] IN
       \/ Return(r, c, DomainErrInternalServer, TRUE)
       \/ /\ c.user_id \notin DOMAIN users
          /\ Return(r, c, UserNoRowsError, FALSE)
       \/ /\ c.user_id \in DOMAIN users
          /\ Return(r, [c EXCEPT !.user = ScanUser(users[c.user_id])], OK, FALSE)
    /\ UNCHANGED <<dbVars, seqVars, lockVars, tx, callVars>>

\* A user to create: the ID and the timestamps are zero.
UserCreate_Start(r, usernames, emails) ==
    /\ pc[r] = "idle"
    /\ ~tx[r].open
    /\ ncalls < MaxCalls
    /\ \E username \in usernames, email \in emails :
          cl' = [cl EXCEPT ![r] = [NoCall EXCEPT !.op = "UserCreate",
                    !.id = ncalls + 1,
                    !.user = [NoUser EXCEPT !.username = username,
                                            !.email = email],
                    !.pre = Snapshot]]
    /\ ncalls' = ncalls + 1
    /\ pc' = [pc EXCEPT ![r] = "UserCreate_GetByEmail"]
    /\ UNCHANGED <<dbVars, seqVars, lockVars, tx, ncreates, failed>>

EmailNeverTaken(rows, email) == FALSE

\* userRepo.GetByEmail returned a user and no error.
EmailTaken(rows, email) == \E id \in DOMAIN rows : rows[id].email = email

\* userRepo.GetByUsername returned a user and no error.
UsernameTaken(rows, username) ==
    \E id \in DOMAIN rows : rows[id].username = username

\* userRepo.GetByEmail and "if err == nil && existingUser != nil": an error
\* of the lookup, a storage error included, lets the call go on.
UserCreate_GetByEmail(r) ==
    /\ pc[r] = "UserCreate_GetByEmail"
    /\ LET c == cl[r] IN
       \/ /\ cl' = [cl EXCEPT ![r].fault = TRUE]
          /\ pc' = [pc EXCEPT ![r] = "UserCreate_GetByUsername"]
          /\ failed' = failed
       \/ /\ EmailTaken(users, c.user.email)
          /\ Return(r, c, DomainConflictError, c.fault)
       \/ /\ ~EmailTaken(users, c.user.email)
          /\ pc' = [pc EXCEPT ![r] = "UserCreate_GetByUsername"]
          /\ UNCHANGED <<cl, failed>>
    /\ UNCHANGED <<dbVars, seqVars, lockVars, tx, callVars>>

\* userRepo.GetByUsername and "if err == nil && existingUser != nil".
UserCreate_GetByUsername(r) ==
    /\ pc[r] = "UserCreate_GetByUsername"
    /\ LET c == cl[r] IN
       \/ /\ cl' = [cl EXCEPT ![r].fault = TRUE]
          /\ pc' = [pc EXCEPT ![r] = "UserCreate_Hash"]
          /\ failed' = failed
       \/ /\ UsernameTaken(users, c.user.username)
          /\ Return(r, c, DomainConflictError, c.fault)
       \/ /\ ~UsernameTaken(users, c.user.username)
          /\ pc' = [pc EXCEPT ![r] = "UserCreate_Hash"]
          /\ UNCHANGED <<cl, failed>>
    /\ UNCHANGED <<dbVars, seqVars, lockVars, tx, callVars>>

\* time.Now(): a time that is not the zero time; the number of calls
\* started so far stands for it.
Now == ncalls

\* bcrypt.GenerateFromPassword, which can fail, and the timestamps.
UserCreate_Hash(r) ==
    /\ pc[r] = "UserCreate_Hash"
    /\ LET c == cl[r] IN
       \/ Return(r, c, DomainErrInternalServer, TRUE)
       \/ /\ cl' = [cl EXCEPT ![r].user.created_at = Now,
                              ![r].user.updated_at = Now]
          /\ pc' = [pc EXCEPT ![r] = "RepoUserCreate"]
          /\ failed' = failed
    /\ UNCHANGED <<dbVars, seqVars, lockVars, tx, callVars>>

\* username VARCHAR(50) UNIQUE and email VARCHAR(100) UNIQUE of table users:
\* an INSERT of a username or an email that a row has fails.
UsersUniqueViolation(rows, user) ==
    \E id \in DOMAIN rows :
        rows[id].username = user.username \/ rows[id].email = user.email

\* userRepository.Create: INSERT INTO users ... RETURNING id.  The sequence
\* is advanced before the UNIQUE constraints of username and email are
\* checked; every error comes back as ErrInternalServer.
RepoUserCreate(r) ==
    /\ pc[r] = "RepoUserCreate"
    /\ LET c == cl[r]
           id == userSeq + 1
       IN
       \/ /\ Return(r, c, DomainErrInternalServer, TRUE)
          /\ UNCHANGED <<users, userSeq>>
       \/ /\ userSeq' = id
          /\ IF UsersUniqueViolation(users, c.user)
                THEN /\ Return(r, c, DomainErrInternalServer, c.fault)
                     /\ users' = users
             ELSE /\ users' = users @@
                        (id :> [id |-> id, username |-> c.user.username,
                                email |-> c.user.email,
                                created_at |-> c.user.created_at,
                                updated_at |-> c.user.updated_at,
                                call |-> c.id])
                  /\ Return(r, [c EXCEPT !.user.id = id], OK, c.fault)
    /\ UNCHANGED <<products, orders, order_items, shipping_info, orderSeq,
                   itemSeq, lockVars, tx, callVars>>

UserCreateSteps(r) ==
    \/ UserCreate_GetByEmail(r)
    \/ UserCreate_GetByUsername(r)
    \/ UserCreate_Hash(r)
    \/ RepoUserCreate(r)

----------------------------------------------------------------------------
(* orderUseCase.GetByUserID *)

GetByUserID_Start(r, uids) ==
    /\ pc[r] = "idle"
    /\ ~tx[r].open
    /\ ncalls < MaxCalls
    /\ \E uid \in uids :
          cl' = [cl EXCEPT ![r] = [NoCall EXCEPT !.op = "GetByUserID",
                    !.id = ncalls + 1, !.user_id = uid, !.pre = Snapshot]]
    /\ ncalls' = ncalls + 1
    /\ pc' = [pc EXCEPT ![r] = "GetByUserID_GetUser"]
    /\ UNCHANGED <<dbVars, seqVars, lockVars, tx, ncreates, failed>>

\* userRepo.GetByID; its error is returned as it is.
GetByUserID_GetUser(r) ==
    /\ pc[r] = "GetByUserID_GetUser"
    /\ LET c == cl[r] IN
       \/ Return(r, c, DomainErrInternalServer, TRUE)
       \/ /\ c.user_id \notin DOMAIN users
          /\ Return(r, c, UserNoRowsError, FALSE)
       \/ /\ c.user_id \in DOMAIN users
          /\ pc' = [pc EXCEPT ![r] = "FindByUserID"]
          /\ UNCHANGED <<cl, failed>>
    /\ UNCHANGED <<dbVars, seqVars, lockVars, tx, callVars>>

\* orderRepo.FindByUserID: SELECT ... FROM orders o ... WHERE o.user_id = $1
\* and the count of these rows.
FindByUserID(r) ==
    /\ pc[r] = "FindByUserID"
    /\ LET c == cl[r] IN
       \/ Return(r, c, NewInternalError, TRUE)
       \/ Return(r, [c EXCEPT !.found =
                        {o.id : o \in {x \in orders : x.user_id = c.user_id}}],
                 OK, FALSE)
    /\ UNCHANGED <<dbVars, seqVars, lockVars, tx, callVars>>

GetByUserIDSteps(r) ==
    \/ GetByUserID_GetUser(r)
    \/ FindByUserID(r)

----------------------------------------------------------------------------
(* Specifications *)

\* Product 1 costs 0.01 and has MaxStock pieces, product 2 costs 0.02 and
\* has one piece.
InitProducts ==
    (1 :> [price |-> 1 * Cent, stock |-> MaxStock]) @@
    (2 :> [price |-> 2 * Cent, stock |-> 1])

\* The users registered so far: user i has the username and the email
\* Names[i], and was registered at time i.
Names == <<"ann", "bob", "cid">>

InitUsers ==
    [id \in UserIDs |-> [id |-> id, username |-> Names[id],
                         email |-> Names[id], created_at |-> id,
                         updated_at |-> id, call |-> 0]]

Init ==
    /\ users = InitUsers
    /\ products = InitProducts
    /\ orders = {}
    /\ order_items = {}
    /\ shipping_info = {}
    /\ orderSeq = 0
    /\ itemSeq = 0
    /\ userSeq = Cardinality(UserIDs)
    /\ productLock = [p \in ProductIDs |-> 0]
    /\ orderLock = [o \in OrderIDs |-> 0]
    /\ tx = [r \in Requests |-> NoTx]
    /\ pc = [r \in Requests |-> "idle"]
    /\ cl = [r \in Requests |-> NoCall]
    /\ ncalls = 0
    /\ ncreates = 0
    /\ failed = {}

\* Input sets of the sequential specification.
AllUserIDs    == UserIDs \cup {UnknownUserID}
AllProductIDs == ProductIDs \cup {UnknownProductID}
Quantities    == 1..MaxQty
ClientPrices  == {1 * Cent, 5 * Cent}
Addresses     == {"", "addr"}

\* One request at a time.
Sequential == \A r \in Requests : pc[r] = "idle"

\* Prices a caller of AddOrderItem passes: 0.01 and 0.015.
ItemPrices    == {1 * Cent, 3}
AllOrderIDs   == 1..(MaxCreates + 1)
UpdateStatuses == {"", OrderStatusCompleted}
UpdateMethods  == {"", PaymentMethodPayPal}
UpdateAddresses == {"", "addr2"}

SeqCreate_Start ==
    /\ Sequential
    /\ Create_Start(1, AllUserIDs, AllProductIDs, Quantities, ClientPrices, Addresses)

SeqAddOrderItem_Start ==
    /\ Sequential
    /\ AddOrderItem_Start(1, AllOrderIDs, AllProductIDs, Quantities, ItemPrices)

SeqUpdate_Start ==
    /\ Sequential
    /\ Update_Start(1, AllOrderIDs, UpdateStatuses, UpdateMethods, UpdateAddresses)

SeqUpdateStatus_Start ==
    /\ Sequential
    /\ UpdateStatus_Start(1, AllOrderIDs, {OrderStatusProcessing})

\* Deltas a caller of UpdateStock passes: a withdrawal and a delivery.
StockDeltas == {-MaxQty, 1}

SeqUpdateStock_Start ==
    /\ Sequential
    /\ UpdateStock_Start(1, AllProductIDs, StockDeltas)

SeqDelete_Start ==
    /\ Sequential
    /\ Delete_Start(1, AllOrderIDs)

SeqGet_Start ==
    /\ Sequential
    /\ Get_Start(1, GetOps, AllOrderIDs)

CreateSteps(r) ==
    \/ Create_GetUser(r)
    \/ Create_FindProduct(r)
    \/ RepoCreate_InsertOrder(r)
    \/ RepoCreate_InsertItem(r)
    \/ RepoCreate_InsertShipping(r)
    \/ RepoCreate_Commit(r)

AddOrderItemSteps(r) ==
    \/ AddOrderItem_CheckOrder(r)
    \/ AddOrderItem_CheckStock(r)
    \/ AddOrderItem_InsertItem(r)
    \/ AddOrderItem_UpdateStock(r)
    \/ AddOrderItem_UpdateTotal(r)
    \/ AddOrderItem_Commit(r)

UpdateSteps(r) ==
    \/ Update_FindByID(r)
    \/ RepoUpdate_Orders(r)
    \/ RepoUpdate_Shipping(r)
    \/ Update_Reread(r)

NextSeq ==
    \/ SeqCreate_Start
    \/ SeqAddOrderItem_Start
    \/ SeqUpdate_Start
    \/ SeqUpdateStatus_Start
    \/ SeqUpdateStock_Start
    \/ SeqDelete_Start
    \/ SeqGet_Start
    \/ \E r \in Requests : CreateSteps(r)
    \/ \E r \in Requests : AddOrderItemSteps(r)
    \/ \E r \in Requests : UpdateSteps(r)
    \/ \E r \in Requests : RepoUpdateStatus(r)
    \/ \E r \in Requests : UpdateStockSteps(r)
    \/ \E r \in Requests : DeleteSteps(r)
    \/ \E r \in Requests : GetSteps(r)
    \/ \E r \in Requests : Ack(r)
    \/ \E r \in Requests : ContextDone(r)

SpecSeq == Init /\ [][NextSeq]_vars

\* Concurrent create-order requests of an existing buyer for existing
\* products, one request per slot.
ConcCreate_Start(r) ==
    Create_Start(r, UserIDs, ProductIDs, Quantities, {1 * Cent}, Addresses)

NextCreate ==
    \/ \E r \in Requests : ConcCreate_Start(r)
    \/ \E r \in Requests : CreateSteps(r)
    \/ \E r \in Requests : Ack(r)
    \/ \E r \in Requests : ContextDone(r)

SpecCreate == Init /\ [][NextCreate]_vars

\* Concurrent create-order requests for one piece of each product named,
\* shipped to an address, and concurrent AddOrderItem calls for the first
\* order.
OrderCreate_Start(r) ==
    Create_Start(r, UserIDs, ProductIDs, {1}, {1 * Cent}, {"addr"})

OrderAddOrderItem_Start(r) ==
    AddOrderItem_Start(r, {1}, ProductIDs, Quantities, {1 * Cent})

NextOrder ==
    \/ \E r \in Requests : OrderCreate_Start(r)
    \/ \E r \in Requests : OrderAddOrderItem_Start(r)
    \/ \E r \in Requests : CreateSteps(r)
    \/ \E r \in Requests : AddOrderItemSteps(r)
    \/ \E r \in Requests : Ack(r)
    \/ \E r \in Requests : ContextDone(r)

SpecOrder == Init /\ [][NextOrder]_vars

\* Concurrent UpdateStock calls and create-order requests.
StockUpdateStock_Start(r) ==
    UpdateStock_Start(r, ProductIDs, StockDeltas)

NextStock ==
    \/ \E r \in Requests : OrderCreate_Start(r)
    \/ \E r \in Requests : StockUpdateStock_Start(r)
    \/ \E r \in Requests : CreateSteps(r)
    \/ \E r \in Requests : UpdateStockSteps(r)
    \/ \E r \in Requests : Ack(r)
    \/ \E r \in Requests : ContextDone(r)

SpecStock == Init /\ [][NextStock]_vars

\* A status string that is none of the four statuses.
OtherStatus == "shipped"

\* One request at a time: create-order requests for one piece of product 1,
\* UpdateStatus calls with each of the four statuses, status requests and
\* Update requests with each of the four statuses and with another string.
StatusCreate_Start ==
    /\ Sequential
    /\ Create_Start(1, UserIDs, {1}, {1}, {1 * Cent}, {"addr"})

StatusUpdateStatus_Start ==
    /\ Sequential
    /\ UpdateStatus_Start(1, AllOrderIDs, OrderStatuses)

StatusUpdateStatusRequest_Start ==
    /\ Sequential
    /\ UpdateStatusRequest_Start(1, AllOrderIDs, OrderStatuses \cup {OtherStatus})

StatusUpdate_Start ==
    /\ Sequential
    /\ Update_Start(1, AllOrderIDs, OrderStatuses \cup {"", OtherStatus},
                    {""}, {""})

NextStatus ==
    \/ StatusCreate_Start
    \/ StatusUpdateStatus_Start
    \/ StatusUpdateStatusRequest_Start
    \/ StatusUpdate_Start
    \/ \E r \in Requests : CreateSteps(r)
    \/ \E r \in Requests : UpdateStatusRequest_Validate(r)
    \/ \E r \in Requests : RepoUpdateStatus(r)
    \/ \E r \in Requests : UpdateSteps(r)
    \/ \E r \in Requests : Ack(r)

SpecStatus == Init /\ [][NextStatus]_vars

\* Quantities a request can carry: Quantity is an int that nothing checks.
AnyQuantities == {-1, 0, 1}

\* One request at a time: create-order requests and AddOrderItem calls with
\* negative, zero and positive quantities.
QtyCreate_Start ==
    /\ Sequential
    /\ Create_Start(1, UserIDs, ProductIDs, AnyQuantities, {1 * Cent}, {"addr"})

QtyAddOrderItem_Start ==
    /\ Sequential
    /\ AddOrderItem_Start(1, AllOrderIDs, ProductIDs, AnyQuantities, {1 * Cent})

NextQty ==
    \/ QtyCreate_Start
    \/ QtyAddOrderItem_Start
    \/ \E r \in Requests : CreateSteps(r)
    \/ \E r \in Requests : AddOrderItemSteps(r)
    \/ \E r \in Requests : Ack(r)
    \/ \E r \in Requests : ContextDone(r)

SpecQty == Init /\ [][NextQty]_vars

\* Concurrent create-order requests for the one piece of product 2, with
\* and without an address, Update requests that supply an address or none,
\* and SaveShippingInfo calls.
ShippingCreate_Start(r) ==
    Create_Start(r, UserIDs, {2}, {1}, {1 * Cent}, Addresses)

ShippingUpdate_Start(r) ==
    Update_Start(r, AllOrderIDs, {""}, {""}, UpdateAddresses)

ShippingSave_Start(r) ==
    SaveShippingInfo_Start(r, AllOrderIDs, {"addr3"})

NextShipping ==
    \/ \E r \in Requests : ShippingCreate_Start(r)
    \/ \E r \in Requests : ShippingUpdate_Start(r)
    \/ \E r \in Requests : ShippingSave_Start(r)
    \/ \E r \in Requests : CreateSteps(r)
    \/ \E r \in Requests : UpdateSteps(r)
    \/ \E r \in Requests : SaveShippingInfoSteps(r)
    \/ \E r \in Requests : Ack(r)
    \/ \E r \in Requests : ContextDone(r)

SpecShipping == Init /\ [][NextShipping]_vars

\* Bodies of product updates: no price or 0.03; no stock member or a
\* negative stock.
ProductPrices == {0, 3 * Cent}
StockMembers  == {[supplied |-> FALSE, value |-> 0],
                  [supplied |-> TRUE, value |-> -1]}

\* Concurrent updates of product 2, create-order requests and AddOrderItem
\* calls that add one piece of product 2 to the first order.
ProductUpdateRequest_Start(r) ==
    ProductUpdate_Start(r, {2}, ProductPrices, StockMembers)

ProductAddOrderItem_Start(r) ==
    AddOrderItem_Start(r, {1}, {2}, {1}, {1 * Cent})

NextProduct ==
    \/ \E r \in Requests : OrderCreate_Start(r)
    \/ \E r \in Requests : ProductAddOrderItem_Start(r)
    \/ \E r \in Requests : ProductUpdateRequest_Start(r)
    \/ \E r \in Requests : CreateSteps(r)
    \/ \E r \in Requests : AddOrderItemSteps(r)
    \/ \E r \in Requests : ProductUpdateSteps(r)
    \/ \E r \in Requests : Ack(r)
    \/ \E r \in Requests : ContextDone(r)

SpecProduct == Init /\ [][NextProduct]_vars

\* One call at a time: GetByID for the ids the users sequence can hand out
\* and Create for a username and an email, each taken or free.
UserIDRange == 1..(Cardinality(UserIDs) + MaxCalls)
UserNames   == {Names[1], Names[2]}
UserEmails  == {Names[1], Names[2], Names[3]}

SeqUserGetByID_Start ==
    /\ Sequential
    /\ UserGetByID_Start(1, UserIDRange)

SeqUserCreate_Start ==
    /\ Sequential
    /\ UserCreate_Start(1, UserNames, UserEmails)

NextUser ==
    \/ SeqUserGetByID_Start
    \/ SeqUserCreate_Start
    \/ \E r \in Requests : UserGetByID(r)
    \/ \E r \in Requests : UserCreateSteps(r)
    \/ \E r \in Requests : Ack(r)

SpecUser == Init /\ [][NextUser]_vars

\* The state after one create-order request for one piece of product 1
\* without an address has been served: order 1 with its one item row.
InitOwner ==
    /\ users = InitUsers
    /\ products = [InitProducts EXCEPT ![1].stock = @ - 1]
    /\ orders = {[id |-> 1, user_id |-> 1, status |-> OrderStatusPending,
                  total_amount |-> InitProducts[1].price,
                  payment_method |-> PaymentMethodCreditCard,
                  call |-> 0, n |-> 1, address |-> ""]}
    /\ order_items = {[id |-> 1, order_id |-> 1, product_id |-> 1,
                       quantity |-> 1, price |-> InitProducts[1].price,
                       call |-> 0]}
    /\ shipping_info = {}
    /\ orderSeq = 1
    /\ itemSeq = 1
    /\ userSeq = Cardinality(UserIDs)
    /\ productLock = [p \in ProductIDs |-> 0]
    /\ orderLock = [o \in OrderIDs |-> 0]
    /\ tx = [r \in Requests |-> NoTx]
    /\ pc = [r \in Requests |-> "idle"]
    /\ cl = [r \in Requests |-> NoCall]
    /\ ncalls = 0
    /\ ncreates = 0
    /\ failed = {}

\* Concurrent AddOrderItem, SaveShippingInfo and Delete calls on order 1.
OwnerAddOrderItem_Start(r) ==
    AddOrderItem_Start(r, {1}, ProductIDs, {1}, {1 * Cent})

OwnerSave_Start(r) ==
    SaveShippingInfo_Start(r, {1}, {"addr3"})

OwnerDelete_Start(r) ==
    Delete_Start(r, {1})

NextOwner ==
    \/ \E r \in Requests : OwnerAddOrderItem_Start(r)
    \/ \E r \in Requests : OwnerSave_Start(r)
    \/ \E r \in Requests : OwnerDelete_Start(r)
    \/ \E r \in Requests : AddOrderItemSteps(r)
    \/ \E r \in Requests : SaveShippingInfoSteps(r)
    \/ \E r \in Requests : DeleteSteps(r)
    \/ \E r \in Requests : Ack(r)
    \/ \E r \in Requests : ContextDone(r)

SpecOwner == InitOwner /\ [][NextOwner]_vars

\* One call at a time of the user, product and order use cases whose errors
\* a handler hands to GetStatusCode.
SeqGetByUserID_Start ==
    /\ Sequential
    /\ GetByUserID_Start(1, UserIDRange)

SeqProductUpdate_Start ==
    /\ Sequential
    /\ ProductUpdateRequest_Start(1)

NextKinds ==
    \/ SeqCreate_Start
    \/ SeqGet_Start
    \/ SeqGetByUserID_Start
    \/ SeqUserGetByID_Start
    \/ SeqUserCreate_Start
    \/ SeqProductUpdate_Start
    \/ \E r \in Requests : CreateSteps(r)
    \/ \E r \in Requests : GetSteps(r)
    \/ \E r \in Requests : GetByUserIDSteps(r)
    \/ \E r \in Requests : UserGetByID(r)
    \/ \E r \in Requests : UserCreateSteps(r)
    \/ \E r \in Requests : ProductUpdateSteps(r)
    \/ \E r \in Requests : Ack(r)
    \/ \E r \in Requests : ContextDone(r)

SpecKinds == Init /\ [][NextKinds]_vars

\* Concurrent Update and UpdateStatus calls on order 1, which is there from
\* the start: an Update supplies a status, a payment method and an address
\* or leaves them empty.
LostUpdate_Start(r) ==
    Update_Start(r, {1}, {"", OrderStatusCompleted},
                 {"", PaymentMethodPayPal}, {"", "addr3"})

LostUpdateStatus_Start(r) ==
    UpdateStatus_Start(r, {1}, {OrderStatusProcessing})

NextLost ==
    \/ \E r \in Requests : LostUpdate_Start(r)
    \/ \E r \in Requests : LostUpdateStatus_Start(r)
    \/ \E r \in Requests : UpdateSteps(r)
    \/ \E r \in Requests : RepoUpdateStatus(r)
    \/ \E r \in Requests : Ack(r)

SpecLost == InitOwner /\ [][NextLost]_vars

\* Concurrent create-order requests under fair scheduling.  No statement
\* fails by itself here: a step of a call is a step that reports no storage
\* failure, so that a call that waits for a row lock can only go on when
\* the lock is released or when PostgreSQL breaks a deadlock.
LiveCreate_Start(r) ==
    Create_Start(r, UserIDs, ProductIDs, {1, 2}, {1 * Cent}, {"addr"})

NoStorageFailure(r) == ~cl'[r].fault

\* Request r waits in UPDATE products for the row lock of a product that
\* another transaction holds.
WaitsFor(r, q) ==
    /\ q # r
    /\ pc[r] = "RepoCreate_InsertItem"
    /\ productLock[cl[r].orderItems[cl[r].i].product_id] = q

DeadlockNeverDetected(r) == FALSE

\* PostgreSQL finds a cycle of lock waits after deadlock_timeout.
DeadlockDetected(r) == \E q \in Requests : WaitsFor(r, q) /\ WaitsFor(q, r)

\* The statement of one transaction of the cycle fails ("deadlock detected"):
\* tx.QueryRowContext returns an error, which stays in err, the deferred
\* function rolls back and Create returns NewInternalError(err).
DeadlockAbort(r) ==
    /\ DeadlockDetected(r)
    /\ Rollback(r)
    /\ Return(r, cl[r], NewInternalError, TRUE)
    /\ UNCHANGED <<seqVars, callVars>>

LiveCreateSteps(r) ==
    \/ Create_GetUser(r) /\ NoStorageFailure(r)
    \/ Create_FindProduct(r) /\ NoStorageFailure(r)
    \/ RepoCreate_InsertOrder(r) /\ NoStorageFailure(r)
    \/ RepoCreate_InsertItem(r) /\ NoStorageFailure(r)
    \/ RepoCreate_InsertShipping(r) /\ NoStorageFailure(r)
    \/ RepoCreate_Commit(r) /\ NoStorageFailure(r)

NextLive ==
    \/ \E r \in Requests : LiveCreate_Start(r)
    \/ \E r \in Requests : LiveCreateSteps(r)
    \/ \E r \in Requests : DeadlockAbort(r)
    \/ \E r \in Requests : Ack(r)
    \/ \E r \in Requests : ContextDone(r)

\* The Go scheduler runs every goroutine that can run, PostgreSQL runs
\* every statement that waits for nothing and its deadlock detector fires,
\* and net/http cancels the context of a request once its handler has
\* returned, which makes database/sql roll back a transaction that was begun
\* with this context and is still open.
FairLive ==
    \A r \in Requests :
        /\ WF_vars(LiveCreateSteps(r))
        /\ WF_vars(DeadlockAbort(r))
        /\ WF_vars(ContextDone(r))

SpecLive == Init /\ [][NextLive]_vars /\ FairLive

----------------------------------------------------------------------------
(* Claims about one call at a time (SpecSeq) *)

Finished(r, op) == pc[r] = "done" /\ cl[r].op = op

\* C1: a successful Create with N line items leaves exactly one new order,
\* with status pending and a total equal to the sum over the request's items
\* of (price of the product when the call started * quantity), exactly N new
\* item rows, all of that order, and every product's stock reduced by the
\* quantities requested of it.
C1_CreatePersistsOrder ==
    \A r \in Requests :
        (Finished(r, "Create") /\ cl[r].result = OK) =>
            LET c == cl[r]
                new == orders \ c.pre.orders
                newItems == order_items \ c.pre.order_items
            IN  /\ Cardinality(new) = 1
                /\ \A o \in new :
                      /\ o.status = OrderStatusPending
                      /\ o.total_amount = SeqAmount(c.items, c.pre.products)
                      /\ newItems = ItemsOf(order_items, o.id)
                /\ Cardinality(newItems) = Len(c.items)
                /\ \A p \in DOMAIN products :
                      /\ QuantityOf(newItems, p) = SeqQuantity(c.items, p)
                      /\ products[p].stock =
                            c.pre.products[p].stock - SeqQuantity(c.items, p)

\* A Create with two line items of different products has succeeded.
C1_Witness ==
    \E r \in Requests :
        /\ Finished(r, "Create") /\ cl[r].result = OK
        /\ Len(cl[r].items) = 2
        /\ cl[r].items[1].product_id # cl[r].items[2].product_id

\* Some line item of the request asks for more than the stock the product
\* had when the call started.
ExceedsStock(c) ==
    \E i \in 1..Len(c.items) :
        /\ c.items[i].product_id \in DOMAIN c.pre.products
        /\ c.items[i].quantity > c.pre.products[c.items[i].product_id].stock

\* C2: a Create in which some line item's quantity exceeds the product's
\* stock fails with InvalidInput and leaves orders, items, shipping rows and
\* stocks as they were.
C2_CreateInsufficientStock ==
    \A r \in Requests :
        (Finished(r, "Create") /\ ExceedsStock(cl[r])) =>
            /\ cl[r].result = InvalidInput
            /\ Snapshot = cl[r].pre

\* A Create of an existing buyer whose second line item exceeds the stock
\* has returned, no storage error having occurred.
C2_Witness ==
    \E r \in Requests :
        /\ Finished(r, "Create") /\ ~cl[r].fault
        /\ cl[r].user_id \in DOMAIN users
        /\ Len(cl[r].items) = 2
        /\ ~ExceedsStock([cl[r] EXCEPT !.items = SubSeq(@, 1, 1)])
        /\ ExceedsStock(cl[r])

\* The request names a buyer or a product that does not exist, or has no
\* line item.
BadReference(c) ==
    \/ c.user_id \notin DOMAIN users
    \/ Len(c.items) = 0
    \/ \E i \in 1..Len(c.items) : c.items[i].product_id \notin DOMAIN c.pre.products

\* C3: a Create that names a nonexistent buyer or a nonexistent product, or
\* has no line item, fails with InvalidInput and leaves orders, items,
\* shipping rows and stocks as they were.
C3_CreateBadReference ==
    \A r \in Requests :
        (Finished(r, "Create") /\ BadReference(cl[r])) =>
            /\ cl[r].result = InvalidInput
            /\ Snapshot = cl[r].pre

\* A Create of an existing buyer whose second line item names a nonexistent
\* product, the first being in stock, has returned.
C3_Witness ==
    \E r \in Requests :
        /\ Finished(r, "Create") /\ ~cl[r].fault
        /\ cl[r].user_id \in DOMAIN users
        /\ Len(cl[r].items) = 2
        /\ cl[r].items[1].product_id \in DOMAIN products
        /\ ~ExceedsStock(cl[r])
        /\ cl[r].items[2].product_id \notin DOMAIN products

\* The item rows a create-order call has inserted.
RowsOfCall(rows, id) == {row \in rows : row.call = id}

\* The repository's transaction was entered: every line item passed the
\* checks of the use case.
InTransaction(c) == Len(c.items) > 0 /\ Len(c.orderItems) = Len(c.items)

\* C4 (SpecCreate): a Create that meets a storage error inside the
\* repository's transaction returns Internal; no committed order, item or
\* shipping row was inserted by a call that failed; every committed order
\* has all the item rows of its call, and only those, a shipping row exactly
\* when an address was supplied, and the stock of every product is its
\* initial stock less the quantities of the committed item rows.
C4_CreateAllOrNothing ==
    /\ \A r \in Requests :
          (Finished(r, "Create") /\ cl[r].fault /\ InTransaction(cl[r])) =>
              cl[r].result = Internal
    /\ \A o \in orders : o.call \notin failed
    /\ \A row \in order_items : row.call \notin failed
    /\ \A s \in shipping_info : s.call \notin failed
    /\ \A o \in orders :
          /\ RowsOfCall(order_items, o.call) = ItemsOf(order_items, o.id)
          /\ Cardinality(ItemsOf(order_items, o.id)) = o.n
          /\ (o.address # "") <=>
                (\E s \in shipping_info :
                    s.order_id = o.id /\ s.address = o.address)
    /\ \A row \in order_items : OrderRows(orders, row.order_id) # {}
    /\ \A s \in shipping_info : OrderRows(orders, s.order_id) # {}
    /\ \A p \in DOMAIN products :
          products[p].stock = InitProducts[p].stock - QuantityOf(order_items, p)

\* A Create with an address met a storage error after the order row and
\* both of its item rows had been inserted, while the order of another call
\* is committed.
C4_Witness ==
    \E r \in Requests :
        /\ Finished(r, "Create") /\ cl[r].fault
        /\ cl[r].result = Internal
        /\ cl[r].address # ""
        /\ Len(cl[r].orderItems) = 2
        /\ cl[r].i > Len(cl[r].orderItems)
        /\ orders # {}

\* C5 (SpecCreate): under concurrent Create calls no product's committed
\* stock is negative and the quantities of the committed item rows of a
\* product sum to at most its initial stock.
C5_NeverOversold ==
    \A p \in DOMAIN products :
        /\ products[p].stock >= 0
        /\ QuantityOf(order_items, p) <= InitProducts[p].stock

\* Two Create calls passed the stock check of the use case for the same
\* product; one is committed and has left less than the other asked for,
\* which was turned down by the check that follows the decrement.
C5_Witness ==
    \E r \in Requests :
        /\ Finished(r, "Create") /\ ~cl[r].fault
        /\ InTransaction(cl[r])
        /\ cl[r].result = InvalidInput
        /\ \E i \in 1..Len(cl[r].orderItems) :
              LET pid == cl[r].orderItems[i].product_id IN
              /\ QuantityOf(order_items, pid) > 0
              /\ products[pid].stock < SeqQuantity(cl[r].orderItems, pid)

\* C6: what a successful Create persists does not depend on the unit prices
\* of the request: every new item row carries the price the product had when
\* the call started, and the order's total is the sum over the new rows of
\* (that price * the row's quantity).
C6_ClientPriceIgnored ==
    \A r \in Requests :
        (Finished(r, "Create") /\ cl[r].result = OK) =>
            LET c == cl[r]
                newItems == order_items \ c.pre.order_items
            IN  /\ \A row \in newItems :
                      row.price = c.pre.products[row.product_id].price
                /\ \A o \in orders \ c.pre.orders :
                      o.total_amount =
                          SumSet(newItems, [row \in newItems |->
                              c.pre.products[row.product_id].price * row.quantity])

\* A Create whose two line items carry different unit prices, neither the
\* price of the product, has succeeded.
C6_Witness ==
    \E r \in Requests :
        /\ Finished(r, "Create") /\ cl[r].result = OK
        /\ Len(cl[r].items) = 2
        /\ cl[r].items[1].price # cl[r].items[2].price
        /\ \E i \in 1..2 :
              cl[r].items[i].price # products[cl[r].items[i].product_id].price

OrderMissing(c) == OrderRows(c.pre.orders, c.order_id) = {}
ProductMissing(c) == c.product_id \notin DOMAIN c.pre.products
StockShort(c) ==
    /\ ~ProductMissing(c)
    /\ c.pre.products[c.product_id].stock < c.quantity

\* C7: AddOrderItem fails with NotFound when the order does not exist, with
\* NotFound when the product does not exist, and with InvalidInput when the
\* stock is less than the quantity (a storage error aside); in each case
\* items, stocks and orders are as they were.
C7_AddOrderItemRejects ==
    \A r \in Requests :
        (Finished(r, "AddOrderItem")
            /\ (OrderMissing(cl[r]) \/ ProductMissing(cl[r]) \/ StockShort(cl[r]))) =>
            /\ Snapshot = cl[r].pre
            /\ ~cl[r].fault =>
                  cl[r].result = IF OrderMissing(cl[r]) \/ ProductMissing(cl[r])
                                    THEN NotFound ELSE InvalidInput

\* An AddOrderItem for an existing order and an existing product with less
\* stock than the quantity has returned InvalidInput.
C7_Witness ==
    \E r \in Requests :
        /\ Finished(r, "AddOrderItem")
        /\ ~OrderMissing(cl[r]) /\ StockShort(cl[r])
        /\ cl[r].result = InvalidInput

\* C8 (SpecSeq): a successful AddOrderItem leaves exactly one new item row, the
\* product's stock reduced by the quantity and the order's total increased
\* by (price * quantity).
C8_AddOrderItemEffect ==
    \A r \in Requests :
        (Finished(r, "AddOrderItem") /\ cl[r].result = OK) =>
            LET c == cl[r]
                newItems == order_items \ c.pre.order_items
            IN  /\ Cardinality(newItems) = 1
                /\ \A row \in newItems :
                      /\ row.order_id = c.order_id
                      /\ row.product_id = c.product_id
                      /\ row.quantity = c.quantity
                /\ products[c.product_id].stock =
                      c.pre.products[c.product_id].stock - c.quantity
                /\ \A o \in OrderRows(orders, c.order_id) :
                      \A old \in OrderRows(c.pre.orders, c.order_id) :
                          o.total_amount = old.total_amount + c.price * c.quantity

\* C9 (SpecSeq): every order's recorded total is the sum over its item rows of
\* (price * quantity).
C9_TotalIsSumOfItems ==
    \A o \in orders :
        o.total_amount = ItemsAmount(ItemsOf(order_items, o.id))

\* C10 (SpecOrder): under concurrent AddOrderItem and Create calls no
\* decrement is lost and no product's committed stock is negative.
C10_AddOrderItemStockFloor ==
    \A p \in DOMAIN products :
        /\ products[p].stock = InitProducts[p].stock - QuantityOf(order_items, p)
        /\ products[p].stock >= 0

\* C11 (SpecSeq): an UpdateStock on an existing product that returns without
\* a storage error on its first statement either leaves the stock at the
\* old stock plus the delta and succeeds, when that sum is not negative, or
\* fails with InvalidInput and leaves the stock as it was.
C11_UpdateStockEffect ==
    \A r \in Requests :
        (Finished(r, "UpdateStock") /\ ~ProductMissing(cl[r])
            /\ cl[r].result # Internal) =>
            LET c == cl[r]
                old == c.pre.products[c.product_id].stock
            IN  IF old + c.quantity >= 0
                   THEN /\ c.result = OK
                        /\ products[c.product_id].stock = old + c.quantity
                ELSE /\ c.result = InvalidInput
                     /\ products[c.product_id].stock = old

\* C12 (SpecStock): under concurrent UpdateStock and Create calls no
\* product's committed stock is negative.
C12_StockFloor ==
    \A p \in DOMAIN products : products[p].stock >= 0

\* C13 (SpecSeq): a Delete of an existing order succeeds, a storage error
\* aside, and leaves no order, item or shipping row of that id and every
\* other row as it was; a Delete that does not succeed changes nothing; a
\* Delete of an id with no order row, such as a second Delete, fails with
\* NotFound, a storage error aside.
C13_DeleteRemovesOrder ==
    \A r \in Requests :
        Finished(r, "Delete") =>
            LET c == cl[r] IN
            /\ (~OrderMissing(c) /\ ~c.fault) => c.result = OK
            /\ (OrderMissing(c) /\ ~c.fault) => c.result = NotFound
            /\ c.result # OK => Snapshot = c.pre
            /\ c.result = OK =>
                  /\ orders = c.pre.orders \ OrderRows(c.pre.orders, c.order_id)
                  /\ order_items =
                        c.pre.order_items \ ItemsOf(c.pre.order_items, c.order_id)
                  /\ shipping_info =
                        c.pre.shipping_info \ ShippingOf(c.pre.shipping_info, c.order_id)

\* The third call is a Delete of order 1 that has returned NotFound; the
\* first two calls succeeded, the first created order 1 and the second
\* deleted it.
C13_Witness ==
    \E r \in Requests :
        /\ Finished(r, "Delete") /\ ~cl[r].fault
        /\ cl[r].result = NotFound
        /\ cl[r].id = MaxCalls /\ failed = {cl[r].id}
        /\ cl[r].order_id = orderSeq /\ orderSeq > 0
        /\ itemSeq > 0
        /\ orders = {} /\ order_items = {} /\ shipping_info = {}

\* C14 (SpecSeq): a Delete leaves every product's stock as it was.
C14_DeleteKeepsStock ==
    \A r \in Requests :
        Finished(r, "Delete") => products = cl[r].pre.products

\* A Delete has removed an order with item rows, and the stock those rows
\* took is still missing.
C14_Witness ==
    \E r \in Requests :
        /\ Finished(r, "Delete") /\ cl[r].result = OK
        /\ ItemsOf(cl[r].pre.order_items, cl[r].order_id) # {}
        /\ order_items = {}
        /\ \E p \in DOMAIN products : products[p].stock < InitProducts[p].stock

\* The address stored for order oid in the given shipping rows, "" when it
\* has no shipping row.
StoredAddress(rows, oid) ==
    IF ShippingOf(rows, oid) = {} THEN ""
    ELSE (CHOOSE x \in ShippingOf(rows, oid) : TRUE).address

\* C15 (SpecSeq): after a successful Update the order's status, payment
\* method and shipping address are the supplied value where one was supplied
\* and the previous value otherwise, whether or not the order had a shipping
\* row before.
C15_UpdateStoresPatch ==
    \A r \in Requests :
        (Finished(r, "Update") /\ cl[r].result = OK) =>
            LET c == cl[r] IN
            /\ \A o \in OrderRows(orders, c.order_id) :
                  \A old \in OrderRows(c.pre.orders, c.order_id) :
                      /\ o.status = Patch(old.status, c.status)
                      /\ o.payment_method = Patch(old.payment_method, c.payment_method)
            /\ StoredAddress(shipping_info, c.order_id) =
                  Patch(StoredAddress(c.pre.shipping_info, c.order_id), c.address)

\* The operations that address an order by its id.
ByIDOps == GetOps \cup {"Update", "UpdateStatus", "Delete"}

\* C16 (SpecSeq): GetByID, GetOrderWithDetails, Update, UpdateStatus and
\* Delete of an id with no order row fail with NotFound, a storage error
\* aside, and leave orders, items, shipping rows and stocks as they were.
C16_MissingOrderNotFound ==
    \A r \in Requests :
        (pc[r] = "done" /\ cl[r].op \in ByIDOps /\ OrderMissing(cl[r])) =>
            /\ Snapshot = cl[r].pre
            /\ ~cl[r].fault => cl[r].result = NotFound

\* An Update that supplies a status, a payment method and an address for an
\* id with no order row has returned NotFound while another order exists.
C16_Witness ==
    \E r \in Requests :
        /\ Finished(r, "Update") /\ OrderMissing(cl[r])
        /\ cl[r].result = NotFound
        /\ cl[r].status # "" /\ cl[r].payment_method # "" /\ cl[r].address # ""
        /\ orders # {}

\* The operations that set the status of an order.
StatusOps == {"UpdateStatus", "UpdateStatusRequest", "Update"}

\* C17 (SpecStatus): UpdateStatus, a status request and Update carrying one
\* of the four statuses, for an existing order in any status, succeed, a
\* storage error aside, and leave the order with the status carried.
C17_AnyStatusFollowsAny ==
    \A r \in Requests :
        (pc[r] = "done" /\ cl[r].op \in StatusOps /\ ~OrderMissing(cl[r])
            /\ cl[r].status \in OrderStatuses /\ ~cl[r].fault) =>
            /\ cl[r].result = OK
            /\ \A o \in OrderRows(orders, cl[r].order_id) :
                  o.status = cl[r].status

\* An Update has moved an order from cancelled back to pending.
C17_Witness ==
    \E r \in Requests :
        /\ Finished(r, "Update") /\ cl[r].result = OK
        /\ cl[r].status = OrderStatusPending
        /\ \E old \in OrderRows(cl[r].pre.orders, cl[r].order_id) :
              old.status = OrderStatusCancelled
        /\ \E o \in OrderRows(orders, cl[r].order_id) :
              o.status = OrderStatusPending

\* C18 (SpecStatus): every order row's status is one of the four statuses.
C18_StatusIsValid ==
    \A o \in orders : o.status \in OrderStatuses

\* C19 (SpecQty): every item row has a quantity of at least 1.
C19_QuantityPositive ==
    \A row \in order_items : row.quantity >= 1

\* C20 (SpecShipping): no order has more than one shipping row; an order
\* that a Create has just committed has exactly one shipping row, inserted
\* by that call, when the address of the request is not empty, and no
\* shipping row inserted by that call otherwise.
C20_OneShippingPerOrder ==
    /\ \A oid \in OrderIDs :
          Cardinality(ShippingOf(shipping_info, oid)) <= 1
    /\ \A r \in Requests :
          (Finished(r, "Create") /\ cl[r].result = OK) =>
              LET mine == RowsOfCall(shipping_info, cl[r].id) IN
              IF cl[r].address # ""
                 THEN /\ mine = ShippingOf(shipping_info, cl[r].order_id)
                      /\ Cardinality(mine) = 1
              ELSE mine = {}

\* A SaveShippingInfo that saw no shipping row for an existing order had its
\* INSERT refused, the order having got its shipping row in between.
C20_Witness ==
    \E r \in Requests :
        /\ Finished(r, "SaveShippingInfo") /\ ~cl[r].fault
        /\ ~cl[r].exists
        /\ cl[r].result = Internal
        /\ OrderRows(orders, cl[r].order_id) # {}
        /\ Cardinality(ShippingOf(shipping_info, cl[r].order_id)) = 1

\* C21 (SpecProduct): a step that changes the price of a product leaves
\* every item row as it is, its price included, and every order with the
\* total it had.
C21_ItemPriceImmutable ==
    [][(\E p \in DOMAIN products : products'[p].price # products[p].price) =>
          /\ \A row \in order_items : row \in order_items'
          /\ \A o \in orders :
                \E o2 \in orders' :
                    o2.id = o.id /\ o2.total_amount = o.total_amount]_vars

\* A product update has changed the price of a product of which a committed
\* item row exists; the row carries the price the product had before and
\* the total of its order is that price times the quantity.
C21_Witness ==
    \E r \in Requests :
        /\ Finished(r, "ProductUpdate") /\ cl[r].result = OK
        /\ products[cl[r].product_id].price # InitProducts[cl[r].product_id].price
        /\ \E row \in order_items :
              /\ row.product_id = cl[r].product_id
              /\ row.price = InitProducts[row.product_id].price
              /\ \E o \in OrderRows(orders, row.order_id) :
                    o.total_amount = ItemsAmount(ItemsOf(order_items, o.id))

\* C25 (SpecProduct): while no product update supplies a stock of zero or
\* more, every product's committed stock is its initial stock less the
\* quantities of the committed item rows: a product update neither sets the
\* stock nor drops a decrement committed between its read and its write.
C25_ProductUpdateKeepsStock ==
    \A p \in DOMAIN products :
        products[p].stock = InitProducts[p].stock - QuantityOf(order_items, p)

\* C22 (SpecUser): a user GetByID that meets no storage error returns the
\* row stored under the id and no error when there is one, and the nil user
\* with a NotFoundError when there is none; it changes no table.
C22_UserGetByID ==
    \A r \in Requests :
        (Finished(r, "UserGetByID") /\ ~cl[r].fault) =>
            LET c == cl[r] IN
            /\ Snapshot = c.pre
            /\ IF c.user_id \in DOMAIN users
                  THEN /\ c.result = OK
                       /\ c.user = ScanUser(users[c.user_id])
                       /\ c.user.id = c.user_id
               ELSE /\ c.result = DomainNotFoundError
                    /\ c.user = NoUser

\* The third call is a GetByID that has returned a user the second call
\* created, after the first call found no user under that id.
C22_Witness ==
    \E r \in Requests :
        /\ Finished(r, "UserGetByID") /\ cl[r].result = OK
        /\ cl[r].id = MaxCalls
        /\ cl[r].user_id \notin UserIDs
        /\ users[cl[r].user_id].call = 2
        /\ failed = {1}

\* A user of the given table has the email or the username of user u.
UserTaken(rows, u) ==
    \E id \in DOMAIN rows :
        rows[id].email = u.email \/ rows[id].username = u.username

\* C23 (SpecUser): a user Create for an email or a username that a stored
\* user has fails, with a ConflictError unless a lookup met a storage error,
\* and leaves table users as it was; any other Create that meets no
\* failure of the storage or of the hashing succeeds; a Create that
\* succeeds leaves exactly one new row, under a non-zero id, with the
\* username and the email of the request and non-zero created_at and
\* updated_at, and hands the same id and timestamps back.
C23_UserCreate ==
    \A r \in Requests :
        Finished(r, "UserCreate") =>
            LET c == cl[r] IN
            /\ UserTaken(c.pre.users, c.user) =>
                  /\ c.result # OK
                  /\ ~c.fault => c.result = DomainConflictError
            /\ c.result # OK => users = c.pre.users
            /\ (~UserTaken(c.pre.users, c.user) /\ ~c.fault) => c.result = OK
            /\ c.result = OK =>
                  /\ c.user.id # 0
                  /\ c.user.created_at # 0 /\ c.user.updated_at # 0
                  /\ c.user.id \notin DOMAIN c.pre.users
                  /\ DOMAIN users = DOMAIN c.pre.users \cup {c.user.id}
                  /\ \A id \in DOMAIN c.pre.users : users[id] = c.pre.users[id]
                  /\ ScanUser(users[c.user.id]) = c.user

\* A Create for a free email and the username of a stored user has
\* returned a ConflictError, after another Create succeeded.
C23_Witness ==
    \E r \in Requests :
        /\ Finished(r, "UserCreate") /\ ~cl[r].fault
        /\ cl[r].result = DomainConflictError
        /\ ~EmailTaken(users, cl[r].user.email)
        /\ UsernameTaken(users, cl[r].user.username)
        /\ Cardinality(DOMAIN users) > Cardinality(UserIDs)

\* Every line item passed the stock check of the use case, and the
\* quantities asked of some product add up to more than the stock it had
\* when the call started: one of the decrements of the transaction yields a
\* negative stock.
DecrementGoesNegative(c) ==
    /\ InTransaction(c)
    /\ \E p \in DOMAIN c.pre.products :
          /\ SeqQuantity(c.items, p) > 0
          /\ c.pre.products[p].stock - SeqQuantity(c.items, p) < 0

\* C24 (SpecSeq): a Create one of whose decrements yields a negative stock
\* and that meets no storage error returns InvalidInput, its transaction is
\* closed when it returns, and orders, items, shipping rows and stocks are
\* as they were.
C24_CreateRolledBackOnReturn ==
    \A r \in Requests :
        (Finished(r, "Create") /\ DecrementGoesNegative(cl[r]) /\ ~cl[r].fault) =>
            /\ cl[r].result = InvalidInput
            /\ ~tx[r].open
            /\ Snapshot = cl[r].pre

\* C28 (SpecSeq): when AddOrderItem or Delete has returned, by whatever
\* path, the transaction it opened is closed.
C28_NoOpenTransactionOnReturn ==
    \A r \in Requests :
        (pc[r] = "done" /\ cl[r].op \in {"AddOrderItem", "Delete"}) =>
            ~tx[r].open

\* Request r returns from AddOrderItem with an error in this step.
AddOrderItemFails(r) ==
    /\ cl[r].op = "AddOrderItem"
    /\ pc[r] # "done" /\ pc'[r] = "done"
    /\ cl'[r].result # OK

\* C26 (SpecOwner): under concurrent AddOrderItem, SaveShippingInfo and
\* Delete calls on one order, every committed item row and every committed
\* shipping row references a committed order row, no committed item row was
\* inserted by a call that failed, and the step by which an AddOrderItem
\* returns an error changes no stock and no item row.
C26_OwnershipUnderConcurrency ==
    /\ [](/\ \A row \in order_items : OrderRows(orders, row.order_id) # {}
          /\ \A s \in shipping_info : OrderRows(orders, s.order_id) # {}
          /\ \A row \in order_items : row.call \notin failed)
    /\ [][\A r \in Requests :
             AddOrderItemFails(r) =>
                 (products' = products /\ order_items' = order_items)]_vars

\* An AddOrderItem that found the order has had its INSERT refused because
\* a Delete committed in between: no storage error occurred, the order, its
\* items and its shipping row are gone and no stock has changed.
C26_Witness ==
    \E r \in Requests :
        /\ Finished(r, "AddOrderItem") /\ ~cl[r].fault
        /\ cl[r].result = Internal
        /\ ~OrderMissing(cl[r])
        /\ orders = {} /\ order_items = {} /\ shipping_info = {}
        /\ products = cl[r].pre.products
        /\ ~tx[r].open

----------------------------------------------------------------------------
(* Claims about the status of an error (SpecKinds) *)

\* The kind of an error: the kind of an AppError, and for an error of
\* package domain the kind its type or value stands for.
KindOf(err) ==
    CASE err = DomainNotFoundError     -> NotFound
      [] err = DomainConflictError     -> Conflict
      [] err = DomainErrInternalServer -> Internal
      [] err = DomainErrUnauthorized   -> "Unauthorized"
      [] OTHER                         -> err

\* C27: every error a user, product or order use case returns has one kind,
\* and GetStatusCode gives it the status of its kind: NotFound 404,
\* InvalidInput 400, Unauthorized 401, Forbidden 403, Conflict 409 and only
\* Internal 500; a user the user repository does not find gives 404.
C27_StatusOfKind ==
    \A r \in Requests :
        (pc[r] = "done" /\ cl[r].result # OK) =>
            LET kind == KindOf(cl[r].result)
                code == GetStatusCode(cl[r].result)
            IN /\ kind \in {NotFound, InvalidInput, "Unauthorized",
                             "Forbidden", Conflict, Internal}
               /\ kind = NotFound       => code = StatusNotFound
               /\ kind = InvalidInput   => code = StatusBadRequest
               /\ kind = "Unauthorized" => code = StatusUnauthorized
               /\ kind = "Forbidden"    => code = StatusForbidden
               /\ kind = Conflict       => code = StatusConflict
               /\ kind = Internal       => code = StatusInternalServerError

\* The same for the errors of pkg/errors alone, which the product and order
\* use cases return.
AppErrorsHaveStatusOfKind ==
    \A r \in Requests :
        (pc[r] = "done" /\ cl[r].result # OK /\ IsAppError(cl[r].result)) =>
            LET kind == cl[r].result
                code == GetStatusCode(cl[r].result)
            IN /\ kind = NotFound     => code = StatusNotFound
               /\ kind = InvalidInput => code = StatusBadRequest
               /\ kind = Conflict     => code = StatusConflict
               /\ kind = Internal     => code = StatusInternalServerError

\* A finished call of the user use case or of GetByUserID whose error is of
\* package domain.
DomainErrorReturned ==
    \E r \in Requests :
        /\ pc[r] = "done"
        /\ cl[r].result \in {DomainNotFoundError, DomainConflictError,
                              DomainErrInternalServer}

----------------------------------------------------------------------------
(* Claims about concurrent Update and UpdateStatus calls (SpecLost) *)

\* The step of request r in which orderRepository.Update writes the row of
\* its order.
UpdateWrites(r) ==
    /\ pc[r] = "RepoUpdate_Orders"
    /\ pc'[r] \in {"RepoUpdate_Shipping", "Update_Reread"}

\* C30: an Update that supplies no status leaves the stored status of the
\* order as it is when it writes, also when an UpdateStatus has committed
\* since the Update read the order; and an Update that supplies no payment
\* method leaves the stored payment method as it is.
C30_UpdateKeepsUnsuppliedFields ==
    [][\A r \in Requests :
          UpdateWrites(r) =>
              \A o \in OrderRows(orders, cl[r].order_id) :
              \A n \in OrderRows(orders', cl[r].order_id) :
                  /\ cl[r].status = "" => n.status = o.status
                  /\ cl[r].payment_method = "" =>
                         n.payment_method = o.payment_method]_vars

----------------------------------------------------------------------------
(* Claims about termination (SpecLive) *)

\* C29: under fair scheduling every Create call returns, with an order or
\* with an error, whatever the interleaving with other Create calls on the
\* same products: it does not wait forever for a product row lock, neither
\* when two calls decrement the same products in opposite order nor when a
\* call that has failed still holds its lock.
C29_CreateReturns ==
    \A r \in Requests :
        (cl[r].op = "Create" /\ pc[r] # "done") ~> (pc[r] = "done")

\* A call has returned after PostgreSQL broke the deadlock it was in, and
\* the other call of the cycle has returned with its order.
C29_Witness ==
    \E r \in Requests, q \in Requests :
        /\ pc[r] = "done" /\ cl[r].op = "Create"
        /\ cl[r].result = NewInternalError /\ cl[r].fault
        /\ pc[q] = "done" /\ cl[q].op = "Create" /\ cl[q].result = OK

\* A call waits for the row lock of a transaction that a call which has
\* returned an error left open.
WaitsForFailedCall ==
    \E r \in Requests, q \in Requests :
        /\ WaitsFor(r, q)
        /\ pc[q] \in {"done", "idle"}
        /\ tx[q].open

============================================================================
